---- MODULE Spec2Model ----
(***************************************************************************)
(* Model of the chunked transfer pipeline of filen-sdk-go:                 *)
(*   - Filen.UploadFile            (filen/upload.go)                       *)
(*   - ChunkedReader               (download reader, newChunkedReader,     *)
(*                                  goFetchChunk, Read, Close)             *)
(* A byte of the plaintext is modelled by its 1-based offset in the        *)
(* source, so that any reordering, loss or duplication of bytes is         *)
(* visible.  SHA-512 is modelled as an injective function of the bytes     *)
(* hashed.                                                                 *)
(***************************************************************************)
EXTENDS Integers, Sequences, FiniteSets, TLC

\* ---------------------------------------------------------------- bounds
\* filen.ChunkSize is 1048576; the model scales it down.
ChunkSize == 2
\* upload semaphore capacity (make(chan struct{}, MaxUploaders)), scaled down
MaxUploaders == 2
\* download ring size limit (MaxBufferSize = 8 in the source), scaled down
MaxBufferSize == 2
\* longest plaintext handed to UploadFile
MaxSize == 3
\* how many (0, nil) results the source io.Reader may return
MaxZeroReads == 1
\* longest buffer p handed to ChunkedReader.Read
MaxP == 3
\* largest File.Chunks of a File handed directly to GetDownloadReader
MaxChunks == 3

\* ---------------------------------------------------------------- helpers
Min(a, b) == IF a < b THEN a ELSE b

\* the plaintext bytes at offsets [from, from+n) of the source
Bytes(from, n) == [k \in 1..n |-> from + k]

RECURSIVE Digits(_)
Digits(n) == IF n < 10 THEN <<n>> ELSE Digits(n \div 10) \o <<n % 10>>
\* strconv.Itoa: the decimal digits of a non-negative integer
Itoa(n) == Digits(n)

\* the empty Go string
EmptyString == <<>>

\* hex(sha512(bytes)): injective, never the empty string
SHA512(bytes) == <<Len(bytes)>> \o bytes

\* EncryptionKey.EncryptData / DecryptData: AEAD seal and open of one chunk
EncryptData(key, plain) == [key |-> key, pt |-> plain]
DecryptOK(key, sealed) == sealed.key = key
DecryptData(key, sealed) == sealed.pt

\* (size / ChunkSize) + 1 as computed for the done request and the File
NumChunksCeil(sz) == (sz + ChunkSize - 1) \div ChunkSize
NumChunks(sz) == (sz \div ChunkSize) + 1

\* context.WithCancelCause: the first cancel wins and records its cause
NoCause == [k |-> "none"]
LiveCtx == [done |-> FALSE, cause |-> NoCause]
Cancel(c, cause) == IF c.done THEN c ELSE [done |-> TRUE, cause |-> cause]

\* ---------------------------------------------------------------- metadata crypto
\* A byte string that went through the cipher or an encoder is a record
\* [enc, key, nonce, pt]: enc tells how the bytes are encoded at the moment
\* ("raw": the sealed bytes, "b64": their base64 text), key and nonce are the
\* ones it was sealed with and pt is the plaintext inside.  A nonce string is
\* [enc, n] with enc "raw" (the 12 nonce bytes) or "hex" (their hex text).

\* cipher.AEAD.Seal / Open of AES-GCM
Seal(key, nonce, plain) == [enc |-> "raw", key |-> key, nonce |-> nonce, pt |-> plain]
OpenOK(key, nonce, ct) == ct.enc = "raw" /\ ct.key = key /\ ct.nonce = nonce

\* base64.StdEncoding.EncodeToString / DecodeString
Base64Encode(b) == [b EXCEPT !.enc = "b64"]
Base64DecodeOK(t) == t.enc = "b64"
Base64Decode(t) == [t EXCEPT !.enc = "raw"]

\* hex.EncodeToString / DecodeString of a nonce
HexEncode(n) == [enc |-> "hex", n |-> n]
HexDecodeOK(t) == t.enc = "hex"
HexDecode(t) == t.n

\* NewEncryptedStringV2: "002" + nonce + base64(encrypted)
NewEncryptedStringV2(encrypted, nonce) ==
  [ver |-> "002", nonce |-> [enc |-> "raw", n |-> nonce], body |-> Base64Encode(encrypted)]
\* NewEncryptedStringV3: "003" + hex(nonce) + base64(encrypted)
NewEncryptedStringV3(encrypted, nonce) ==
  [ver |-> "003", nonce |-> HexEncode(nonce), body |-> Base64Encode(encrypted)]

\* the result of a decryption: the plaintext, or the errors met
\* (calls: the keys of a chain that were tried, in the order of the calls)
Decrypted(plain) == [ok |-> TRUE, val |-> plain, errs |-> <<>>, calls |-> <<>>]
DecryptErr(e) == [ok |-> FALSE, val |-> "", errs |-> <<e>>, calls |-> <<>>]

\* MasterKey.EncryptMeta (481-485) and MasterKey.DecryptMetaV2 (515-526)
MasterKey_EncryptMeta(m, nonce, metadata) ==
  NewEncryptedStringV2(Seal(m, nonce, metadata), nonce)
MasterKey_DecryptMetaV2(m, metadata) ==
  IF ~Base64DecodeOK(metadata.body)
  THEN DecryptErr([e |-> "base64", key |-> m])
  ELSE IF ~OpenOK(m, metadata.nonce.n, Base64Decode(metadata.body))
  THEN DecryptErr([e |-> "open", key |-> m])
  ELSE Decrypted(metadata.body.pt)

\* MasterKeys.decryptMeta (549-560): the keys of the chain from position k on
RECURSIVE decryptMetaFrom(_, _, _, _)
decryptMetaFrom(ms, metadata, k, errs) ==
  IF k > Len(ms) THEN [ok |-> FALSE, val |-> "", errs |-> errs, calls |-> ms]
  ELSE LET d == MasterKey_DecryptMetaV2(ms[k], metadata)
       IN IF d.ok THEN [d EXCEPT !.calls = SubSeq(ms, 1, k)]
          ELSE decryptMetaFrom(ms, metadata, k + 1, errs \o d.errs)
\* the chain with its last key first
LastKeyFirst(ms) == IF ms = <<>> THEN ms ELSE <<ms[Len(ms)]>> \o SubSeq(ms, 1, Len(ms) - 1)
\* MasterKeys.DecryptMetaV2 (566-568); MasterKeys_DecryptMetaV2Rotated is the
\* variant that starts with the last key of the chain
MasterKeys_DecryptMetaV2Rotated(ms, metadata) ==
  decryptMetaFrom(LastKeyFirst(ms), metadata, 1, <<>>)
MasterKeys_DecryptMetaV2(ms, metadata) == decryptMetaFrom(ms, metadata, 1, <<>>)
\* MasterKeys.EncryptMeta (570-576)
MasterKeys_EncryptMeta(ms, nonce, metadata) == MasterKey_EncryptMeta(ms[1], nonce, metadata)

\* EncryptionKey.EncryptMeta (606-610) and EncryptionKey.DecryptMeta (612-625):
\* DecryptMeta hands metadata[27:], the base64 text, to cipher.Open
EncryptionKey_EncryptMeta(key, nonce, metadata) ==
  NewEncryptedStringV3(Seal(key, nonce, metadata), nonce)
EncryptionKey_DecryptMeta(key, metadata) ==
  IF metadata.ver # "003" THEN DecryptErr([e |-> "format", key |-> key])
  ELSE IF ~HexDecodeOK(metadata.nonce) THEN DecryptErr([e |-> "nonce", key |-> key])
  ELSE IF ~OpenOK(key, HexDecode(metadata.nonce), metadata.body)
  THEN DecryptErr([e |-> "open", key |-> key])
  ELSE Decrypted(metadata.body.pt)

\* Filen.EncryptMeta (filen/crypto.go 25-36): auth version 1 panics
Filen_EncryptMeta(api, nonce, metadata) ==
  IF api.AuthVersion = 2 THEN MasterKeys_EncryptMeta(api.MasterKeys, nonce, metadata)
  ELSE EncryptionKey_EncryptMeta(api.DEK, nonce, metadata)
\* Filen.DecryptMeta (filen/crypto.go 38-50): dispatch on the envelope prefix
Filen_DecryptMeta(api, encrypted) ==
  IF encrypted.ver = "002" THEN MasterKeys_DecryptMetaV2(api.MasterKeys, encrypted)
  ELSE EncryptionKey_DecryptMeta(api.DEK, encrypted)
\* Filen.EncryptMeta (filen/crypto.go 25-36): the field of the session whose
\* EncryptMeta the switch on AuthVersion calls, or the panic it ends in;
\* EncryptMetaChainAlways is the variant that calls the master-key chain on
\* every session, against which the claim on empty chains is tested
EncryptMetaChainAlways(api) == "MasterKeys"
EncryptMetaReceiver(api) ==
  CASE api.AuthVersion = 1 -> "panic: todo"
    [] api.AuthVersion = 2 -> "MasterKeys"
    [] api.AuthVersion = 3 -> "DEK"
    [] OTHER -> "panic: unsupported version"
\* the field of the session whose method the dispatch of DecryptMeta calls
DecryptMetaReceiver(api, encrypted) ==
  IF encrypted.ver = "002" THEN "MasterKeys" ELSE "DEK"

\* the zero values of [32]byte and [64]byte
Zero32 == "zero32"

\* getCipherForKey (436-446), NewMasterKey (466-479), MakeEncryptionKeyFromBytes
\* (627-636): the cipher state is a function of the key bytes
getCipherForKey(key) == <<"gcm", key>>
NewMasterKey(key) ==
  [Bytes |-> key, DerivedBytes |-> <<"pbkdf2", key>>,
   cipher |-> getCipherForKey(<<"pbkdf2", key>>)]
MakeEncryptionKeyFromBytes(key) == [Bytes |-> key, cipher |-> getCipherForKey(key)]
\* crypto.EncryptionKey{}: the zero value
ZeroEncryptionKey == [Bytes |-> Zero32, cipher |-> <<"nil">>]


\* ---------------------------------------------------------------- file metadata
\* A time.Time is [ms, sub]: the milliseconds since the epoch and what lies
\* below the millisecond.  A key's bytes are [id, ascii]; the string a key is
\* written as is [form, len, of].

\* time.Time.Round(time.Millisecond), UnixMilli, Add(time.Second)
RoundMs(t) == [ms |-> IF t.sub >= 500 THEN t.ms + 1 ELSE t.ms, sub |-> 0]
UnixMilli(t) == t.ms
AddSecond(t) == [t EXCEPT !.ms = @ + 1000]
\* util.TimestampToTime of a millisecond timestamp
TimestampToTime(ts) == [ms |-> ts, sub |-> 0]

\* crypto.MakeNewFileKey: the bytes of a random alphanumeric string for auth
\* version 1 and 2, random bytes for auth version 3
MakeNewFileKey(authVersion) ==
  MakeEncryptionKeyFromBytes([id |-> "newFileKey", ascii |-> authVersion # 3])

\* EncryptionKey.ToStringWithAuthVersion (706-711)
ToStringWithAuthVersion(key, authVersion) ==
  IF authVersion = 3 THEN [form |-> "hex", len |-> 64, of |-> key.Bytes]
  ELSE [form |-> "raw", len |-> 32, of |-> key.Bytes]
\* json.Marshal of a string: bytes that are not UTF-8 are replaced
JSONString(str) ==
  IF str.form = "raw" /\ str.len > 0 /\ ~str.of.ascii
  THEN [str EXCEPT !.of = [id |-> "replaced", ascii |-> TRUE]]
  ELSE str
\* MakeEncryptionKeyFromUnknownStr (668-677)
MakeEncryptionKeyFromUnknownStrOK(str) ==
  \/ str.len = 32
  \/ str.len = 64 /\ str.form = "hex"
MakeEncryptionKeyFromUnknownStr(str) == MakeEncryptionKeyFromBytes(str.of)

\* NewIncompleteFile (shared_types.go 25-47)
NewIncompleteFile(authVersion, uuid, name, created, lastModified, parentUUID) ==
  [UUID |-> uuid, Name |-> name, MimeType |-> "application/octet-stream",
   EncryptionKey |-> MakeNewFileKey(authVersion),
   Created |-> RoundMs(created), LastModified |-> RoundMs(lastModified),
   ParentUUID |-> parentUUID]

\* completeUpload (upload.go 116-135): the File of a finished upload
CompleteUploadFile(fu, bucket, region, sz, fileHash) ==
  [UUID |-> fu.UUID, Name |-> fu.Name, MimeType |-> fu.MimeType,
   EncryptionKey |-> fu.EncryptionKey, Created |-> fu.Created,
   LastModified |-> fu.LastModified, ParentUUID |-> fu.ParentUUID,
   Size |-> sz, Favorited |-> FALSE, Region |-> region, Bucket |-> bucket,
   Chunks |-> NumChunks(sz), Hash |-> fileHash]

\* the FileMetadata that makeRequestFromUploader (upload.go 89-105) and
\* UpdateMeta (public.go 68-79) marshal; FileMetadataNoKey is the variant
\* that leaves the key out
FileMetadataNoKey(authVersion, f) ==
  [Name |-> f.Name, Size |-> f.Size, MimeType |-> f.MimeType,
   Key |-> JSONString([form |-> "raw", len |-> 0, of |-> [id |-> "", ascii |-> TRUE]]),
   LastModified |-> UnixMilli(f.LastModified), Created |-> UnixMilli(f.Created),
   Hash |-> f.Hash]
FileMetadataOf(authVersion, f) ==
  [Name |-> f.Name, Size |-> f.Size, MimeType |-> f.MimeType,
   Key |-> JSONString(ToStringWithAuthVersion(f.EncryptionKey, authVersion)),
   LastModified |-> UnixMilli(f.LastModified), Created |-> UnixMilli(f.Created),
   Hash |-> f.Hash]

\* the types.File that ReadDirectory (cloud.go 390-404) builds from a record
\* of the listing and its decrypted metadata
FileOf(rec, metadata) ==
  [UUID |-> rec.uuid, Name |-> metadata.Name, MimeType |-> metadata.MimeType,
   EncryptionKey |-> MakeEncryptionKeyFromUnknownStr(metadata.Key),
   Created |-> TimestampToTime(metadata.Created),
   LastModified |-> TimestampToTime(metadata.LastModified),
   ParentUUID |-> rec.parent,
   Size |-> metadata.Size, Favorited |-> rec.favorited = 1,
   Region |-> rec.region, Bucket |-> rec.bucket, Chunks |-> rec.chunks,
   Hash |-> metadata.Hash]

\* ---------------------------------------------------------------- state
VARIABLES
  \* --- the caller's io.Reader and UploadFile's locals
  r,                \* [len, kind, pos, zeros]: the source reader
  upc,              \* position of the UploadFile goroutine
  i,                \* loop counter of the read loop
  size,             \* bytes read so far
  data,             \* the chunk buffer of the current iteration
  readErr,          \* err of the current iteration's r.Read
  hasher,           \* bytes written to fileUpload.hasher
  ctx,              \* the upload's context (WithCancelCause)
  uploadSem,        \* tokens held in the semaphore channel
  wg,               \* WaitGroup counter
  bucketAndRegion,  \* contents of the 1-buffered channel
  done,             \* the done channel is closed
  waiter,           \* the wg.Wait goroutine has been started
  tasks,            \* chunk index -> state of its upload goroutine
  doneReq,          \* the /v3/upload/done request being sent
  result,           \* what UploadFile returned
  cancelledBeforeDone, \* the caller cancelled before done was issued
  \* --- the server
  srvChunks,        \* chunk index -> sealed chunk stored by /v3/upload
  srvDone,          \* /v3/upload/done requests committed
  srvEmpty,         \* /v3/upload/empty requests issued
  \* --- the ChunkedReader
  file,             \* r.file: the File being downloaded
  buffer,           \* r.buffer: the ring of chunkState slots
  chunkIndex,       \* r.chunkIndex
  offsetInChunk,    \* r.offsetInChunk
  rdHasher,         \* bytes written to r.hasher
  rdCtx,            \* r.ctx (WithCancelCause of the caller's context)
  errOnce,          \* r.errOnce has fired
  rpc,              \* position of the consumer inside Read
  p,                \* [len, read]: the buffer of the Read call in progress
  delivered,        \* every byte copied into a caller's buffer, in order
  lastRead,         \* (n, err) returned by the latest Read
  closeRet,         \* what Close returned
  fetchFailed,      \* chunk indices whose fetch failed
  failedAtEntry,    \* a fetch failure was recorded when the Read call began
  panicked,         \* MustLock or Unlock panicked
  envFault          \* a fetch the server could have served failed, or the
                    \* caller cancelled the reader's context

VARIABLES
  \* --- the session and the cloud tree (FindItem, FindDirectoryOrCreate, ...)
  sess,             \* the Filen session the calls are made on
  fsPath,           \* the path string handed to the calls
  fsDirs,           \* the server's directories, in creation order
  fsFiles,          \* the server's files
  nextUUID,         \* the next value uuid.New() yields
  fsLast            \* the latest completed call and what it returned

upVars == <<r, upc, i, size, data, readErr, hasher, ctx, uploadSem, wg,
            bucketAndRegion, done, waiter, tasks, doneReq, result,
            cancelledBeforeDone>>
srvVars == <<srvChunks, srvDone, srvEmpty>>
dlVars == <<file, buffer, chunkIndex, offsetInChunk, rdHasher, rdCtx, errOnce,
            rpc, p, delivered, lastRead, closeRet, fetchFailed, failedAtEntry,
            panicked, envFault>>
VARIABLES
  \* --- metadata envelopes (EncryptMeta, DecryptMeta)
  mcApi,            \* the session whose EncryptMeta / DecryptMeta is called
  mcMsg,            \* the metadata string the caller encrypts
  mcEnv,            \* the envelope at hand, with where it came from
  mcOut             \* the result of the latest DecryptMeta

VARIABLES
  \* --- session persistence (SerializeTo, DeserializeFrom)
  szApi,            \* the session that is serialized
  szBuf,            \* the bytes in the buffer between the two calls
  szOut             \* what DeserializeFrom returned

VARIABLES
  \* --- the caller's File (UploadFile, UpdateMeta, FindItem)
  fmHeld,           \* the File the caller holds, and whether it is written
  fmFound           \* the File the latest FindItem returned

VARIABLES
  \* --- session bootstrap and the requests of a client (New, NewWithAPIKey)
  clSrv,            \* the account as the server holds it
  clPw,             \* the password the caller supplies
  clNew,            \* what New returned
  clKeyed,          \* what NewWithAPIKey returned
  clLog             \* the requests of the latest call, in order

VARIABLES
  \* --- one call of a JSON endpoint (handleRequest and its callers)
  rqCall,           \* the endpoint called and the reply of the server
  rqOut             \* what the endpoint method returned, and what its caller did

VARIABLES
  \* --- DownloadToPath
  dpc,              \* position of the DownloadToPath call
  dpTmp,            \* the temporary file: its state and its bytes
  dpDest,           \* the file at downloadPath
  dpDest0,          \* the file at downloadPath when the call began
  dpRet             \* what DownloadToPath returned

VARIABLES
  \* --- HashFileName
  hnApi,            \* the session (AuthVersion, HMACKey)
  hnName,           \* the name hashed
  hnOut             \* the result of HashFileName

rqVars == <<rqCall, rqOut>>
dpVars == <<dpc, dpTmp, dpDest, dpDest0, dpRet>>
hnVars == <<hnApi, hnName, hnOut>>
fsVars == <<sess, fsPath, fsDirs, fsFiles, nextUUID, fsLast>>
clVars == <<clSrv, clPw, clNew, clKeyed, clLog>>
fmVars == <<fmHeld, fmFound>>
mcVars == <<mcApi, mcMsg, mcEnv, mcOut>>
szVars == <<szApi, szBuf, szOut>>
\* everything outside the transfer pipeline
extVars == <<fsVars, mcVars, szVars, fmVars, clVars, rqVars, dpVars, hnVars>>
\* what the calls on the tree, on envelopes and on persistence leave alone
fsRest == <<upVars, srvVars, dlVars, mcVars, szVars, fmVars, clVars, rqVars, dpVars, hnVars>>
mcRest == <<upVars, srvVars, dlVars, fsVars, szVars, fmVars, clVars, rqVars, dpVars, hnVars>>
szRest == <<upVars, srvVars, dlVars, fsVars, mcVars, fmVars, clVars, rqVars, dpVars, hnVars>>
fmRest == <<upVars, srvVars, dlVars, mcVars, szVars, clVars, rqVars, dpVars, hnVars>>
rqRest == <<upVars, srvVars, dlVars, fsVars, mcVars, szVars, fmVars, clVars, dpVars, hnVars>>
dpRest == <<upVars, srvVars, dlVars, fsVars, mcVars, szVars, fmVars, clVars, rqVars, hnVars>>
hnRest == <<upVars, srvVars, dlVars, fsVars, mcVars, szVars, fmVars, clVars, rqVars, dpVars>>
clRest == <<upVars, srvVars, dlVars, fsVars, mcVars, szVars, fmVars, rqVars, dpVars, hnVars>>
vars == <<upVars, srvVars, dlVars, extVars>>

\* the file key of the File, and some other key
FileKey == "fileKey"
OtherKey == "otherKey"

NoResult == [kind |-> "none"]
ErrResult(e) == [kind |-> "err", err |-> e]
FileResult(f) == [kind |-> "file", file |-> f]

ZeroFile == [Size |-> 0, Region |-> EmptyString, Bucket |-> EmptyString,
             Chunks |-> 0, Hash |-> EmptyString, key |-> ""]

NoRead == [n |-> 0, err |-> [e |-> "none"]]

\* the plaintext of the chunks 0 .. c-1 that the store holds, in index order
RECURSIVE PlainOf(_, _)
PlainOf(store, c) ==
  IF c = 0 THEN <<>>
  ELSE PlainOf(store, c - 1) \o
       (IF (c - 1) \in DOMAIN store THEN store[c - 1].pt ELSE <<>>)

\* ---------------------------------------------------------------- Init
InitReader ==
  /\ buffer = <<>>
  /\ chunkIndex = 0
  /\ offsetInChunk = 0
  /\ rdHasher = <<>>
  /\ rdCtx = LiveCtx
  /\ errOnce = FALSE
  /\ rpc = "none"
  /\ p = [len |-> 0, read |-> 0]
  /\ delivered = <<>>
  /\ lastRead = NoRead
  /\ closeRet = "none"
  /\ fetchFailed = {}
  /\ failedAtEntry = FALSE
  /\ panicked = FALSE
  /\ envFault = FALSE

InitUpload ==
  /\ r \in [len : 0..MaxSize, kind : {"full", "any"}, pos : {0}, zeros : {0}]
  /\ upc = "read"
  /\ i = 0
  /\ size = 0
  /\ data = <<>>
  /\ readErr = "nil"
  /\ hasher = <<>>
  /\ ctx = LiveCtx
  /\ uploadSem = 0
  /\ wg = 0
  /\ bucketAndRegion = <<>>
  /\ done = FALSE
  /\ waiter = FALSE
  /\ tasks = <<>>
  /\ doneReq = [kind |-> "none"]
  /\ result = NoResult
  /\ cancelledBeforeDone = FALSE
  /\ srvChunks = <<>>
  /\ srvDone = <<>>
  /\ srvEmpty = <<>>
  /\ file = ZeroFile
  /\ InitReader

\* the server content of a File that was not uploaded in this run: n stored
\* chunks, all full but the last, which has l bytes or is anomalous
StoredChunks(n, l, a) ==
  [k \in 0..(n - 1) |->
     IF k < n - 1 \/ a = "none"
     THEN EncryptData(FileKey, Bytes(k * ChunkSize, IF k < n - 1 THEN ChunkSize ELSE l))
     ELSE IF a = "corrupt" THEN EncryptData(OtherKey, Bytes(k * ChunkSize, l))
     ELSE IF a = "toolarge" THEN EncryptData(FileKey, Bytes(k * ChunkSize, ChunkSize + 1))
     ELSE EncryptData(FileKey, <<>>)]

\* a File obtained elsewhere (a directory listing) is handed to
\* GetDownloadReader; UploadFile does not run
InitDownload ==
  /\ r = [len |-> 0, kind |-> "full", pos |-> 0, zeros |-> 0]
  /\ upc = "off"
  /\ i = 0
  /\ size = 0
  /\ data = <<>>
  /\ readErr = "nil"
  /\ hasher = <<>>
  /\ ctx = LiveCtx
  /\ uploadSem = 0
  /\ wg = 0
  /\ bucketAndRegion = <<>>
  /\ done = FALSE
  /\ waiter = FALSE
  /\ tasks = <<>>
  /\ doneReq = [kind |-> "none"]
  /\ result = NoResult
  /\ cancelledBeforeDone = FALSE
  /\ srvDone = <<>>
  /\ srvEmpty = <<>>
  /\ \E n \in 0..MaxChunks, c \in 0..MaxChunks, l \in 1..ChunkSize,
        a \in {"none", "corrupt", "toolarge", "empty"},
        h \in {"empty", "right", "wrong"} :
       /\ n = 0 => (l = 1 /\ a = "none")
       /\ a # "none" => (l = 1 /\ h = "right")
       /\ srvChunks = StoredChunks(n, l, a)
       /\ file = [Size |-> Len(PlainOf(StoredChunks(n, l, a), c)),
                  Region |-> <<0>>, Bucket |-> <<0>>, Chunks |-> c,
                  Hash |-> IF h = "empty" THEN EmptyString
                           ELSE IF h = "right"
                           THEN SHA512(PlainOf(StoredChunks(n, l, a), c))
                           ELSE <<99>>,
                  key |-> FileKey]
  /\ InitReader

\* the session and the tree while only the transfer pipeline runs
InitNoFS ==
  /\ sess = [AuthVersion |-> 2, Email |-> "email", APIKey |-> "apiKey",
             MasterKeys |-> <<"mk1">>, DEK |-> "", KEK |-> "", BaseFolder |-> <<"base">>]
  /\ fsPath = <<>>
  /\ fsDirs = <<>>
  /\ fsFiles = <<>>
  /\ nextUUID = 1
  /\ fsLast = [op |-> "none", net |-> "ok",
               ret |-> [kind |-> "nil", UUID |-> <<>>, Name |-> <<>>, ParentUUID |-> <<>>],
               creates |-> 0, repeat |-> FALSE,
               prev |-> [kind |-> "nil", UUID |-> <<>>, Name |-> <<>>, ParentUUID |-> <<>>],
               sent |-> <<>>, reply |-> <<>>]

\* no envelope at hand
NoEnv == [from |-> "none", ver |-> "", nonce |-> [enc |-> "raw", n |-> ""],
          body |-> [enc |-> "raw", key |-> "", nonce |-> "", pt |-> ""]]
NoOut == [op |-> "none", ok |-> FALSE, val |-> "", errs |-> <<>>, calls |-> <<>>,
          used |-> "none"]
InitNoMc ==
  /\ mcApi = [AuthVersion |-> 2, Email |-> "email", APIKey |-> "apiKey",
              MasterKeys |-> <<"mk1">>, DEK |-> "", KEK |-> "", BaseFolder |-> <<"base">>]
  /\ mcMsg = ""
  /\ mcEnv = NoEnv
  /\ mcOut = NoOut

\* nothing serialized
NoBuf == [kind |-> "none", fields |-> <<>>]
NoSession == [op |-> "none", ok |-> FALSE]
InitNoSz ==
  /\ szApi = [AuthVersion |-> 0]
  /\ szBuf = NoBuf
  /\ szOut = NoSession

\* the caller holds no File
NoHeld == [kind |-> "none"]
NoFile == [UUID |-> <<>>]
InitNoFm ==
  /\ fmHeld = NoHeld
  /\ fmFound = NoFile

\* no session asked for
NoRun == [run |-> FALSE, ok |-> FALSE, log |-> <<>>]
InitNoCl ==
  /\ clSrv = [AuthVersion |-> 0]
  /\ clPw = ""
  /\ clNew = NoRun
  /\ clKeyed = NoRun
  /\ clLog = <<>>

\* no endpoint called
NoCallMade == [ep |-> "none"]
NoReturn == [kind |-> "none"]
InitNoRq ==
  /\ rqCall = NoCallMade
  /\ rqOut = NoReturn

\* DownloadToPath not called
NoTmp == [st |-> "none", bytes |-> <<>>, closeErr |-> FALSE]
NoDest == [exists |-> FALSE, bytes |-> <<>>]
InitNoDp ==
  /\ dpc = "off"
  /\ dpTmp = NoTmp
  /\ dpDest = NoDest
  /\ dpDest0 = NoDest
  /\ dpRet = "none"

\* HashFileName not called
InitNoHn ==
  /\ hnApi = [AuthVersion |-> 0]
  /\ hnName = <<>>
  /\ hnOut = [done |-> FALSE]

InitNoAux == InitNoRq /\ InitNoDp /\ InitNoHn

Init ==
  /\ InitUpload \/ InitDownload
  /\ InitNoFS /\ InitNoMc /\ InitNoSz /\ InitNoFm /\ InitNoCl
  /\ InitNoAux

\* ---------------------------------------------------------------- UploadFile

\* the results r.Read(data) may produce under the io.Reader contract
ReadResults ==
  LET rem == r.len - r.pos IN
  IF r.kind = "full"
  THEN \* bytes.Reader, os.File: fills the buffer, reports EOF with no data
       { [n |-> Min(ChunkSize, rem), err |-> IF rem = 0 THEN "EOF" ELSE "nil"] }
  ELSE { x \in [n : 0..Min(ChunkSize, rem), err : {"nil", "EOF", "err"}] :
           /\ x.err = "EOF" => x.n = rem
           /\ (x.n = 0 /\ x.err = "nil") => r.zeros < MaxZeroReads }

\* return from UploadFile: the deferred cancel(nil) runs
Return(res, c) ==
  /\ result' = res
  /\ upc' = "returned"
  /\ ctx' = Cancel(c, [k |-> "exit"])

\* upload.go 169-183: one r.Read of the read loop
ReadChunk ==
  /\ upc = "read"
  /\ \E x \in ReadResults :
       /\ r' = [r EXCEPT !.pos = @ + x.n,
                         !.zeros = IF x.n = 0 /\ x.err = "nil" THEN @ + 1 ELSE @]
       /\ size' = size + x.n
       /\ IF x.err = "err"
          THEN /\ Return(ErrResult([e |-> "reader"]), Cancel(ctx, [k |-> "reader", idx |-> i]))
               /\ UNCHANGED <<i, data, readErr, hasher>>
          ELSE IF x.n > 0
          THEN /\ data' = Bytes(r.pos, x.n)
               /\ hasher' = hasher \o Bytes(r.pos, x.n)
               /\ readErr' = x.err
               /\ upc' = "select"
               /\ UNCHANGED <<i, ctx, result>>
          ELSE /\ IF x.err = "EOF"
                  THEN upc' = "afterLoop" /\ i' = i
                  ELSE upc' = "read" /\ i' = i + 1
               /\ UNCHANGED <<data, readErr, hasher, ctx, result>>
  /\ UNCHANGED <<uploadSem, wg, bucketAndRegion, done, waiter, tasks, doneReq,
                 cancelledBeforeDone, srvVars>>
  /\ UNCHANGED <<dlVars, extVars>>

\* upload.go 186-187: the select takes <-ctx.Done()
SelectCtxDone ==
  /\ upc = "select"
  /\ ctx.done
  /\ Return(ErrResult([e |-> "ctxdone", cause |-> ctx.cause]), ctx)
  /\ UNCHANGED <<r, i, size, data, readErr, hasher, uploadSem, wg,
                 bucketAndRegion, done, waiter, tasks, doneReq,
                 cancelledBeforeDone, srvVars>>
  /\ UNCHANGED <<dlVars, extVars>>

\* upload.go 188-211: the select takes uploadSem <- struct{}{} and starts the
\* chunk goroutine, then the loop either breaks (EOF) or steps i;
\* SelectStartTaskNoWait is the variant whose send never waits for a free
\* slot, against which the bound on running tasks is tested
SelectStartTaskNoWait ==
  /\ upc = "select"
  /\ uploadSem' = uploadSem + 1
  /\ wg' = wg + 1
  /\ tasks' = (i :> [st |-> "inflight", ok |-> FALSE, data |-> data]) @@ tasks
  /\ IF readErr = "EOF"
     THEN upc' = "afterLoop" /\ i' = i
     ELSE upc' = "read" /\ i' = i + 1
  /\ UNCHANGED <<r, size, data, readErr, hasher, ctx, bucketAndRegion, done,
                 waiter, doneReq, result, cancelledBeforeDone, srvVars>>
  /\ UNCHANGED <<dlVars, extVars>>
SelectStartTask ==
  /\ upc = "select"
  /\ uploadSem < MaxUploaders
  /\ uploadSem' = uploadSem + 1
  /\ wg' = wg + 1
  /\ tasks' = (i :> [st |-> "inflight", ok |-> FALSE, data |-> data]) @@ tasks
  /\ IF readErr = "EOF"
     THEN upc' = "afterLoop" /\ i' = i
     ELSE upc' = "read" /\ i' = i + 1
  /\ UNCHANGED <<r, size, data, readErr, hasher, ctx, bucketAndRegion, done,
                 waiter, doneReq, result, cancelledBeforeDone, srvVars>>
  /\ UNCHANGED <<dlVars, extVars>>

\* upload.go 196-204 with uploadChunk (46-53): the POST of one chunk comes
\* back.  A request whose context is cancelled is aborted by the transport.
\* On success the response is offered to bucketAndRegion without blocking and
\* the deferred function releases the semaphore; nothing another goroutine can
\* see lies between these steps.  TaskSucceedOverwrite is the variant in
\* which every response replaces the pair in the channel, against which the
\* capture claim is tested.
TaskSucceedOverwrite(t) ==
  /\ t \in DOMAIN tasks
  /\ tasks[t].st = "inflight"
  /\ ~ctx.done
  /\ srvChunks' = (t :> EncryptData(FileKey, tasks[t].data)) @@ srvChunks
  /\ bucketAndRegion' = <<[Bucket |-> <<t>>, Region |-> <<t>>]>>
  /\ uploadSem' = uploadSem - 1
  /\ tasks' = [tasks EXCEPT ![t].st = "wgdone", ![t].ok = TRUE]
  /\ UNCHANGED <<r, upc, i, size, data, readErr, hasher, ctx, wg,
                 done, waiter, doneReq, result, cancelledBeforeDone,
                 srvDone, srvEmpty>>
  /\ UNCHANGED <<dlVars, extVars>>

TaskSucceed(t) ==
  /\ t \in DOMAIN tasks
  /\ tasks[t].st = "inflight"
  /\ ~ctx.done
  /\ srvChunks' = (t :> EncryptData(FileKey, tasks[t].data)) @@ srvChunks
  /\ bucketAndRegion' = IF bucketAndRegion = <<>>
                        THEN <<[Bucket |-> <<t>>, Region |-> <<t>>]>>
                        ELSE bucketAndRegion
  /\ uploadSem' = uploadSem - 1
  /\ tasks' = [tasks EXCEPT ![t].st = "wgdone", ![t].ok = TRUE]
  /\ UNCHANGED <<r, upc, i, size, data, readErr, hasher, ctx, wg,
                 done, waiter, doneReq, result, cancelledBeforeDone,
                 srvDone, srvEmpty>>
  /\ UNCHANGED <<dlVars, extVars>>

\* upload.go 196-199: the POST fails and cancel(err) records the cause
\* (TaskFail); TaskFailNoCancel is the variant that leaves the context
\* alone, against which the failure claims are tested
TaskFailNoCancel(t) ==
  /\ t \in DOMAIN tasks
  /\ tasks[t].st = "inflight"
  /\ tasks' = [tasks EXCEPT ![t].st = "release"]
  /\ UNCHANGED <<r, upc, i, size, data, readErr, hasher, ctx, uploadSem, wg,
                 bucketAndRegion, done, waiter, doneReq, result,
                 cancelledBeforeDone, srvVars>>
  /\ UNCHANGED <<dlVars, extVars>>
TaskFail(t) ==
  /\ t \in DOMAIN tasks
  /\ tasks[t].st = "inflight"
  /\ ctx' = Cancel(ctx, [k |-> "chunk", idx |-> t])
  /\ tasks' = [tasks EXCEPT ![t].st = "release"]
  /\ UNCHANGED <<r, upc, i, size, data, readErr, hasher, uploadSem, wg,
                 bucketAndRegion, done, waiter, doneReq, result,
                 cancelledBeforeDone, srvVars>>
  /\ UNCHANGED <<dlVars, extVars>>

\* upload.go 191-194: the deferred function of a failed task, first
\* <-uploadSem ...
TaskRelease(t) ==
  /\ t \in DOMAIN tasks
  /\ tasks[t].st = "release"
  /\ uploadSem' = uploadSem - 1
  /\ tasks' = [tasks EXCEPT ![t].st = "wgdone"]
  /\ UNCHANGED <<r, upc, i, size, data, readErr, hasher, ctx, wg,
                 bucketAndRegion, done, waiter, doneReq, result,
                 cancelledBeforeDone, srvVars>>
  /\ UNCHANGED <<dlVars, extVars>>

\* ... then wg.Done()
TaskWgDone(t) ==
  /\ t \in DOMAIN tasks
  /\ tasks[t].st = "wgdone"
  /\ wg' = wg - 1
  /\ tasks' = [tasks EXCEPT ![t].st = "gone"]
  /\ UNCHANGED <<r, upc, i, size, data, readErr, hasher, ctx, uploadSem,
                 bucketAndRegion, done, waiter, doneReq, result,
                 cancelledBeforeDone, srvVars>>
  /\ UNCHANGED <<dlVars, extVars>>

\* upload.go 214-216 with completeUploadEmpty (137-157) up to the request
UploadEmpty ==
  /\ upc = "afterLoop"
  /\ size = 0
  /\ srvEmpty' = Append(srvEmpty, [Size |-> Itoa(0), sent |-> ~ctx.done])
  /\ IF ctx.done
     THEN Return(ErrResult([e |-> "completeUpload", inner |-> "send"]), ctx)
     ELSE upc' = "emptyInFlight" /\ UNCHANGED <<ctx, result>>
  /\ UNCHANGED <<r, i, size, data, readErr, hasher, uploadSem, wg,
                 bucketAndRegion, done, waiter, tasks, doneReq,
                 cancelledBeforeDone, srvChunks, srvDone>>
  /\ UNCHANGED <<dlVars, extVars>>

\* completeUploadEmpty 148-155: the File of an empty upload
EmptyFileOneChunk(fileHash) ==
  [Size |-> 0, Region |-> EmptyString, Bucket |-> EmptyString,
   Chunks |-> NumChunks(0), Hash |-> fileHash, key |-> FileKey]
EmptyFile(fileHash) ==
  [Size |-> 0, Region |-> EmptyString, Bucket |-> EmptyString,
   Chunks |-> 0, Hash |-> fileHash, key |-> FileKey]

\* completeUploadEmpty 143-155: the reply of /v3/upload/empty
UploadEmptyReply ==
  /\ upc = "emptyInFlight"
  /\ \/ /\ ~ctx.done
        /\ Return(FileResult(EmptyFile(SHA512(hasher))), ctx)
     \/ Return(ErrResult([e |-> "completeUpload", inner |-> "reply"]), ctx)
  /\ UNCHANGED <<r, i, size, data, readErr, hasher, uploadSem, wg,
                 bucketAndRegion, done, waiter, tasks, doneReq,
                 cancelledBeforeDone, srvVars>>
  /\ UNCHANGED <<dlVars, extVars>>

\* upload.go 218-222: the goroutine that waits for the WaitGroup is started
StartWaiter ==
  /\ upc = "afterLoop"
  /\ size # 0
  /\ waiter' = TRUE
  /\ upc' = "waitSelect"
  /\ UNCHANGED <<r, i, size, data, readErr, hasher, ctx, uploadSem, wg,
                 bucketAndRegion, done, tasks, doneReq, result,
                 cancelledBeforeDone, srvVars>>
  /\ UNCHANGED <<dlVars, extVars>>

\* upload.go 220-221: wg.Wait() returns and done is closed (WaiterClose);
\* WaiterCloseEarly is the variant that closes done without waiting for the
\* WaitGroup, against which the ordering claim is tested
WaiterCloseEarly ==
  /\ waiter
  /\ ~done
  /\ done' = TRUE
  /\ UNCHANGED <<r, upc, i, size, data, readErr, hasher, ctx, uploadSem, wg,
                 bucketAndRegion, waiter, tasks, doneReq, result,
                 cancelledBeforeDone, srvVars>>
  /\ UNCHANGED <<dlVars, extVars>>
WaiterClose ==
  /\ waiter
  /\ ~done
  /\ wg = 0
  /\ done' = TRUE
  /\ UNCHANGED <<r, upc, i, size, data, readErr, hasher, ctx, uploadSem, wg,
                 bucketAndRegion, waiter, tasks, doneReq, result,
                 cancelledBeforeDone, srvVars>>
  /\ UNCHANGED <<dlVars, extVars>>

\* upload.go 225: the completion select takes <-done
WaitDone ==
  /\ upc = "waitSelect"
  /\ done
  /\ upc' = "recvBR"
  /\ UNCHANGED <<r, i, size, data, readErr, hasher, ctx, uploadSem, wg,
                 bucketAndRegion, done, waiter, tasks, doneReq, result,
                 cancelledBeforeDone, srvVars>>
  /\ UNCHANGED <<dlVars, extVars>>

\* upload.go 233-234: the completion select takes <-ctx.Done()
WaitCtxDone ==
  /\ upc = "waitSelect"
  /\ ctx.done
  /\ Return(ErrResult([e |-> "ctxdone", cause |-> ctx.cause]), ctx)
  /\ UNCHANGED <<r, i, size, data, readErr, hasher, uploadSem, wg,
                 bucketAndRegion, done, waiter, tasks, doneReq,
                 cancelledBeforeDone, srvVars>>
  /\ UNCHANGED <<dlVars, extVars>>

\* the channel made at upload.go 166 is never closed
bucketAndRegionClosed == FALSE

\* makeRequestFromUploader (89-114): the body of /v3/upload/done
makeRequestFromUploader(sz, fileHash) ==
  [Size |-> Itoa(sz), Chunks |-> NumChunks(sz), Hash |-> fileHash]

\* upload.go 226-231 and completeUpload (116-122): receive the captured
\* response, build the done request and hand it to the transport.  The
\* receive blocks while the channel is empty and open.
CompleteUpload ==
  /\ upc = "recvBR"
  /\ bucketAndRegion # <<>> \/ bucketAndRegionClosed
  /\ IF bucketAndRegion = <<>>
     THEN /\ Return(ErrResult([e |-> "noChunks"]), ctx)
          /\ UNCHANGED <<bucketAndRegion, doneReq>>
     ELSE /\ bucketAndRegion' = <<>>
          /\ doneReq' = [kind |-> "done",
                         req |-> makeRequestFromUploader(size, SHA512(hasher)),
                         resp |-> Head(bucketAndRegion),
                         inflight |-> {t \in DOMAIN tasks : tasks[t].st # "gone"}]
          /\ IF ctx.done
             THEN Return(ErrResult([e |-> "completeUpload", inner |-> "send"]), ctx)
             ELSE upc' = "doneInFlight" /\ UNCHANGED <<ctx, result>>
  /\ UNCHANGED <<r, i, size, data, readErr, hasher, uploadSem, wg, done,
                 waiter, tasks, cancelledBeforeDone, srvVars>>
  /\ UNCHANGED <<dlVars, extVars>>

\* completeUpload 122-134: the reply of /v3/upload/done
UploadDoneReply ==
  /\ upc = "doneInFlight"
  /\ \/ /\ ~ctx.done
        /\ srvDone' = Append(srvDone, doneReq.req)
        /\ Return(FileResult([Size |-> size, Region |-> doneReq.resp.Region,
                              Bucket |-> doneReq.resp.Bucket,
                              Chunks |-> NumChunks(size),
                              Hash |-> doneReq.req.Hash, key |-> FileKey]), ctx)
     \/ /\ Return(ErrResult([e |-> "completeUpload", inner |-> "reply"]), ctx)
        /\ UNCHANGED srvDone
  /\ UNCHANGED <<r, i, size, data, readErr, hasher, uploadSem, wg,
                 bucketAndRegion, done, waiter, tasks, doneReq,
                 cancelledBeforeDone, srvChunks, srvEmpty>>
  /\ UNCHANGED <<dlVars, extVars>>

\* the caller cancels the context it passed to UploadFile
CallerCancel ==
  /\ upc \notin {"returned", "off"}
  /\ ~ctx.done
  /\ ctx' = Cancel(ctx, [k |-> "caller"])
  /\ cancelledBeforeDone' = (cancelledBeforeDone \/ upc # "doneInFlight")
  /\ UNCHANGED <<r, upc, i, size, data, readErr, hasher, uploadSem, wg,
                 bucketAndRegion, done, waiter, tasks, doneReq, result,
                 srvVars>>
  /\ UNCHANGED <<dlVars, extVars>>

UploadNext ==
  \/ ReadChunk
  \/ SelectCtxDone
  \/ SelectStartTask
  \/ \E t \in DOMAIN tasks : TaskSucceed(t)
  \/ \E t \in DOMAIN tasks : TaskFail(t)
  \/ \E t \in DOMAIN tasks : TaskRelease(t)
  \/ \E t \in DOMAIN tasks : TaskWgDone(t)
  \/ UploadEmpty
  \/ UploadEmptyReply
  \/ StartWaiter
  \/ WaiterClose
  \/ WaitDone
  \/ WaitCtxDone
  \/ CompleteUpload
  \/ UploadDoneReply
  \/ CallerCancel

\* ---------------------------------------------------------------- ChunkedReader

\* goFetchChunk (148-159): reserve the slot of chunk k with MustLock and start
\* the goroutine that fills it; nothing happens for k >= file.Chunks
\* (goFetchChunk); goFetchChunkWrongSlot is the variant that puts chunk k in
\* the slot of chunk k+1, against which the reader's ordering claim is tested
goFetchChunkWrongSlot(buf, f, k) ==
  IF k >= f.Chunks THEN buf
  ELSE [buf EXCEPT ![((k + 1) % Len(buf)) + 1] =
          [@ EXCEPT !.locked = TRUE, !.fetch = "fetch", !.idx = k]]
goFetchChunk(buf, f, k) ==
  IF k >= f.Chunks THEN buf
  ELSE [buf EXCEPT ![(k % Len(buf)) + 1] =
          [@ EXCEPT !.locked = TRUE, !.fetch = "fetch", !.idx = k]]

\* MustLock panics when the slot is already locked
MustLockPanics(buf, f, k) == k < f.Chunks /\ buf[(k % Len(buf)) + 1].locked

\* newChunkedReader (110-132), called by GetDownloadReader;
\* newChunkedReaderNoLock is the variant that starts the fetches without
\* reserving their slots, against which the slot claim is tested
newChunkedReaderNoLock ==
  /\ rpc = "none"
  /\ upc = "off" \/ (upc = "returned" /\ result.kind = "file")
  /\ LET f == IF upc = "off" THEN file ELSE result.file
         bufferSize == Min(MaxBufferSize, f.Chunks)
     IN /\ file' = f
        /\ buffer' = [s \in 1..bufferSize |->
                        [data |-> <<>>, size |-> 0, locked |-> FALSE,
                         fetch |-> "fetch", idx |-> s - 1]]
  /\ rpc' = "idle"
  \* the frame of the finished UploadFile call is gone
  /\ upc' = "off"
  /\ i' = 0
  /\ data' = <<>>
  /\ readErr' = "nil"
  /\ hasher' = <<>>
  /\ ctx' = LiveCtx
  /\ bucketAndRegion' = <<>>
  /\ done' = FALSE
  /\ waiter' = FALSE
  /\ tasks' = <<>>
  /\ doneReq' = [kind |-> "none"]
  /\ cancelledBeforeDone' = FALSE
  /\ UNCHANGED <<extVars, r, size, uploadSem, wg, result, srvVars, chunkIndex,
                 offsetInChunk, rdHasher, rdCtx, errOnce, p, delivered,
                 lastRead, closeRet, fetchFailed, failedAtEntry, panicked, envFault>>

newChunkedReader ==
  /\ rpc = "none"
  /\ upc = "off" \/ (upc = "returned" /\ result.kind = "file")
  /\ LET f == IF upc = "off" THEN file ELSE result.file
         bufferSize == Min(MaxBufferSize, f.Chunks)
     IN /\ file' = f
        /\ buffer' = [s \in 1..bufferSize |->
                        [data |-> <<>>, size |-> 0, locked |-> TRUE,
                         fetch |-> "fetch", idx |-> s - 1]]
  /\ rpc' = "idle"
  \* the frame of the finished UploadFile call is gone
  /\ upc' = "off"
  /\ i' = 0
  /\ data' = <<>>
  /\ readErr' = "nil"
  /\ hasher' = <<>>
  /\ ctx' = LiveCtx
  /\ bucketAndRegion' = <<>>
  /\ done' = FALSE
  /\ waiter' = FALSE
  /\ tasks' = <<>>
  /\ doneReq' = [kind |-> "none"]
  /\ cancelledBeforeDone' = FALSE
  /\ UNCHANGED <<extVars, r, size, uploadSem, wg, result, srvVars, chunkIndex,
                 offsetInChunk, rdHasher, rdCtx, errOnce, p, delivered,
                 lastRead, closeRet, fetchFailed, failedAtEntry, panicked, envFault>>

\* r.errOnce.Do(func() { r.cancel(cause) })
OnceCancel(cause) ==
  /\ errOnce' = TRUE
  /\ rdCtx' = IF errOnce THEN rdCtx ELSE Cancel(rdCtx, cause)

\* fetchChunk (134-146) after fetchAndDecryptChunk (14-25) returned data; the
\* slot is filled and the deferred Unlock (goFetchChunk 156) releases it, the
\* filled but still locked slot being invisible to the consumer
FetchSucceed(s) ==
  /\ s \in DOMAIN buffer
  /\ buffer[s].fetch = "fetch"
  /\ ~rdCtx.done
  /\ buffer[s].idx \in DOMAIN srvChunks
  /\ DecryptOK(file.key, srvChunks[buffer[s].idx])
  /\ LET d == DecryptData(file.key, srvChunks[buffer[s].idx]) IN
       IF Len(d) > ChunkSize
       THEN /\ OnceCancel([k |-> "toolarge", idx |-> buffer[s].idx])
            /\ fetchFailed' = fetchFailed \cup {buffer[s].idx}
            /\ buffer' = [buffer EXCEPT ![s].fetch = "unlock"]
       ELSE /\ buffer' = [buffer EXCEPT ![s].fetch = "idle", ![s].data = d,
                                        ![s].size = Len(d), ![s].locked = FALSE]
            /\ UNCHANGED <<errOnce, rdCtx, fetchFailed>>
  /\ panicked' = (panicked \/ ~buffer[s].locked)
  /\ UNCHANGED <<extVars, upVars, srvVars, file, chunkIndex, offsetInChunk, rdHasher,
                 rpc, p, delivered, lastRead, closeRet, failedAtEntry, envFault>>

\* fetchChunk (134-139) after fetchAndDecryptChunk returned an error: the
\* chunk is missing, does not decrypt, or the request failed or was aborted
FetchFail(s) ==
  /\ s \in DOMAIN buffer
  /\ buffer[s].fetch = "fetch"
  /\ OnceCancel([k |-> "fetch", idx |-> buffer[s].idx])
  /\ fetchFailed' = fetchFailed \cup {buffer[s].idx}
  /\ envFault' = (envFault \/ (/\ ~rdCtx.done
                                /\ buffer[s].idx \in DOMAIN srvChunks
                                /\ DecryptOK(file.key, srvChunks[buffer[s].idx])))
  /\ buffer' = [buffer EXCEPT ![s].fetch = "unlock"]
  /\ UNCHANGED <<extVars, upVars, srvVars, file, chunkIndex, offsetInChunk, rdHasher,
                 rpc, p, delivered, lastRead, closeRet, failedAtEntry, panicked>>

\* goFetchChunk 156: the deferred chunkState.ctxMu.Unlock() of a fetch that
\* failed and has cancelled the reader
FetchUnlock(s) ==
  /\ s \in DOMAIN buffer
  /\ buffer[s].fetch = "unlock"
  /\ buffer' = [buffer EXCEPT ![s].fetch = "idle", ![s].locked = FALSE]
  /\ panicked' = (panicked \/ ~buffer[s].locked)
  /\ UNCHANGED <<extVars, upVars, srvVars, file, chunkIndex, offsetInChunk, rdHasher,
                 rdCtx, errOnce, rpc, p, delivered, lastRead, closeRet,
                 fetchFailed, failedAtEntry, envFault>>

\* Read returns (p.read, err); only the nil return writes p[:read] to the hasher
ReadReturn(err) ==
  /\ rpc' = "idle"
  /\ lastRead' = [n |-> p.read, err |-> err]
  /\ rdHasher' = IF err.e = "nil"
                 THEN rdHasher \o SubSeq(delivered, Len(delivered) - p.read + 1,
                                         Len(delivered))
                 ELSE rdHasher

\* Read 162-170: entry of a Read call with len(p) = n
ReadEnter(n) ==
  /\ rpc = "idle"
  /\ closeRet = "none"
  /\ failedAtEntry' = (fetchFailed # {})
  /\ p' = [len |-> n, read |-> 0]
  /\ IF n = 0
     THEN /\ lastRead' = [n |-> 0, err |-> [e |-> "nil"]]
          /\ UNCHANGED rpc
     ELSE IF rdCtx.done
     THEN /\ lastRead' = [n |-> 0, err |-> [e |-> "ctxErr"]]
          /\ UNCHANGED rpc
     ELSE /\ rpc' = "top"
          /\ UNCHANGED lastRead
  /\ UNCHANGED <<extVars, upVars, srvVars, file, buffer, chunkIndex, offsetInChunk,
                 rdHasher, rdCtx, errOnce, delivered, closeRet, fetchFailed,
                 panicked, envFault>>

\* Read 173-186 and 208-209: the loop condition, the ctx.Done check and the
\* end-of-file check
ReadTop ==
  /\ rpc = "top"
  /\ IF p.read >= p.len THEN ReadReturn([e |-> "nil"])
     ELSE IF rdCtx.done THEN ReadReturn([e |-> "ctxErr"])
     ELSE IF chunkIndex >= file.Chunks
     THEN IF p.read = 0 THEN ReadReturn([e |-> "EOF"])
          ELSE ReadReturn([e |-> "nil"])
     ELSE rpc' = "lock" /\ UNCHANGED <<lastRead, rdHasher>>
  /\ UNCHANGED <<extVars, upVars, srvVars, file, buffer, chunkIndex, offsetInChunk,
                 rdCtx, errOnce, p, delivered, closeRet, fetchFailed,
                 failedAtEntry, panicked, envFault>>

\* copyTo 78-81 with CtxMutex.Lock 43-46: the select takes <-ctx.Done()
ReadLockCtxDone ==
  /\ rpc = "lock"
  /\ rdCtx.done
  /\ ReadReturn([e |-> "lock", cause |-> rdCtx.cause])
  /\ UNCHANGED <<extVars, upVars, srvVars, file, buffer, chunkIndex, offsetInChunk,
                 rdCtx, errOnce, p, delivered, closeRet, fetchFailed,
                 failedAtEntry, panicked, envFault>>

\* copyTo 78-94 with CtxMutex.Lock 47-48, then Read 190-206: the select takes
\* the slot's mutex, the bytes are copied out and the slot is released; a
\* slot read to its end is handed to the fetch of chunk chunkIndex+len(buffer);
\* ReadLockCopyRefetch is the variant that fetches the chunk just read again,
\* against which the prefetch claim is tested
ReadLockCopyRefetch ==
  /\ rpc = "lock"
  /\ LET s == (chunkIndex % Len(buffer)) + 1
         c == buffer[s]
         n == IF offsetInChunk >= c.size THEN 0
              ELSE Min(p.len - p.read, c.size - offsetInChunk)
         finished == offsetInChunk + n >= c.size
     IN /\ ~c.locked
        /\ delivered' = delivered \o SubSeq(c.data, offsetInChunk + 1, offsetInChunk + n)
        /\ p' = [p EXCEPT !.read = @ + n]
        /\ IF finished
           THEN /\ buffer' = goFetchChunk(buffer, file, chunkIndex)
                /\ panicked' = (panicked \/ MustLockPanics(buffer, file, chunkIndex))
                /\ offsetInChunk' = 0
                /\ chunkIndex' = chunkIndex + 1
           ELSE /\ offsetInChunk' = offsetInChunk + n
                /\ UNCHANGED <<buffer, panicked, chunkIndex>>
  /\ rpc' = "top"
  /\ UNCHANGED <<extVars, upVars, srvVars, file, rdHasher, rdCtx, errOnce, lastRead,
                 closeRet, fetchFailed, failedAtEntry, envFault>>

ReadLockCopy ==
  /\ rpc = "lock"
  /\ LET s == (chunkIndex % Len(buffer)) + 1
         c == buffer[s]
         n == IF offsetInChunk >= c.size THEN 0
              ELSE Min(p.len - p.read, c.size - offsetInChunk)
         finished == offsetInChunk + n >= c.size
     IN /\ ~c.locked
        /\ delivered' = delivered \o SubSeq(c.data, offsetInChunk + 1, offsetInChunk + n)
        /\ p' = [p EXCEPT !.read = @ + n]
        /\ IF finished
           THEN /\ buffer' = goFetchChunk(buffer, file, chunkIndex + Len(buffer))
                /\ panicked' = (panicked \/ MustLockPanics(buffer, file, chunkIndex + Len(buffer)))
                /\ offsetInChunk' = 0
                /\ chunkIndex' = chunkIndex + 1
           ELSE /\ offsetInChunk' = offsetInChunk + n
                /\ UNCHANGED <<buffer, panicked, chunkIndex>>
  /\ rpc' = "top"
  /\ UNCHANGED <<extVars, upVars, srvVars, file, rdHasher, rdCtx, errOnce, lastRead,
                 closeRet, fetchFailed, failedAtEntry, envFault>>

\* Close 213-228
Close ==
  /\ rpc = "idle"
  /\ closeRet = "none"
  /\ rdCtx' = Cancel(rdCtx, [k |-> "closed"])
  /\ closeRet' = IF chunkIndex < file.Chunks THEN "nil"
                 ELSE IF file.Hash # EmptyString /\ file.Hash # SHA512(rdHasher)
                 THEN "mismatch"
                 ELSE "nil"
  /\ UNCHANGED <<extVars, upVars, srvVars, file, buffer, chunkIndex, offsetInChunk,
                 rdHasher, errOnce, rpc, p, delivered, lastRead, fetchFailed,
                 failedAtEntry, panicked, envFault>>

\* the caller cancels the context it passed to GetDownloadReader
ReaderCallerCancel ==
  /\ rpc # "none"
  /\ ~rdCtx.done
  /\ rdCtx' = Cancel(rdCtx, [k |-> "caller"])
  /\ envFault' = TRUE
  /\ UNCHANGED <<extVars, upVars, srvVars, file, buffer, chunkIndex, offsetInChunk,
                 rdHasher, errOnce, rpc, p, delivered, lastRead, closeRet,
                 fetchFailed, failedAtEntry, panicked>>

DownloadNext ==
  \/ newChunkedReader
  \/ \E s \in DOMAIN buffer : FetchSucceed(s)
  \/ \E s \in DOMAIN buffer : FetchFail(s)
  \/ \E s \in DOMAIN buffer : FetchUnlock(s)
  \/ \E n \in 0..MaxP : ReadEnter(n)
  \/ ReadTop
  \/ ReadLockCtxDone
  \/ ReadLockCopy
  \/ Close
  \/ ReaderCallerCancel

Next == UploadNext \/ DownloadNext

Spec == Init /\ [][Next]_vars

\* ================================================================ claims

\* the upload task of chunk t failed
TaskFailed(t) == tasks[t].st \in {"release", "wgdone", "gone"} /\ ~tasks[t].ok
SomeTaskFailed == \E t \in DOMAIN tasks : TaskFailed(t)
\* UploadFile returned a File in this run
Uploaded == result.kind = "file"
\* the latest Read reported a failure
ReadFailed == lastRead.err.e \in {"ctxErr", "lock"}

\* C1: every File that UploadFile returns downloads again: reading the
\* reader of GetDownloadReader(file) never fails, at EOF the bytes delivered
\* are the uploaded bytes in order and hash to File.Hash, and Close is nil.
\* (Stated for a source reader that fills every buffer, with no transport
\* fault and no cancellation during the download.)
C1_RoundTrip ==
  (Uploaded /\ r.kind = "full" /\ rpc # "none" /\ ~envFault) =>
    /\ ~ReadFailed
    /\ lastRead.err.e = "EOF" =>
         /\ delivered = Bytes(0, r.len)
         /\ SHA512(rdHasher) = result.file.Hash
    /\ closeRet \in {"none", "nil"}

\* C2: when the source yields no byte, UploadFile posts no chunk and no
\* done, issues exactly one /v3/upload/empty with size "0", returns a File
\* with Size 0, Chunks 0 and empty Region and Bucket, and downloading that
\* File delivers nothing and reports no error.
C2_EmptyUpload ==
  /\ (upc # "off" /\ r.len = 0) =>
       /\ tasks = <<>> /\ srvChunks = <<>>
       /\ doneReq.kind = "none" /\ srvDone = <<>>
       /\ Len(srvEmpty) <= 1
       /\ \A k \in DOMAIN srvEmpty : srvEmpty[k].Size = <<0>>
       /\ (upc = "returned" /\ result # ErrResult([e |-> "reader"])) =>
            Len(srvEmpty) = 1
  /\ (Uploaded /\ r.len = 0) =>
       /\ result.file.Size = 0 /\ result.file.Chunks = 0
       /\ result.file.Region = EmptyString /\ result.file.Bucket = EmptyString
       /\ srvChunks = <<>> /\ srvDone = <<>> /\ Len(srvEmpty) = 1
       /\ (rpc # "none" /\ ~envFault) =>
            /\ delivered = <<>>
            /\ ~ReadFailed
            /\ closeRet \in {"none", "nil"}
C2_Witness ==
  /\ Uploaded /\ r.len = 0
  /\ lastRead.err.e = "EOF" /\ closeRet = "nil"

\* C3: /v3/upload/done is issued only when every chunk-upload task that was
\* started has finished, and none is started afterwards.
C3_DoneAfterAllChunks ==
  doneReq.kind = "done" =>
    /\ doneReq.inflight = {}
    /\ \A t \in DOMAIN tasks : tasks[t].st = "gone"
    /\ wg = 0
C3_Witness ==
  /\ doneReq.kind = "done"
  /\ Cardinality(DOMAIN tasks) >= 2
  /\ srvDone # <<>>

\* C4: if a chunk upload failed, or the caller cancelled before done was
\* issued, UploadFile returns no File and no /v3/upload/done is committed.
C4_NoCommitAfterFailure ==
  (SomeTaskFailed \/ cancelledBeforeDone) =>
    (result.kind # "file" /\ srvDone = <<>>)
C4_Witness ==
  /\ SomeTaskFailed
  /\ \E t \in DOMAIN tasks : tasks[t].ok
  /\ upc = "returned"
  /\ result = ErrResult([e |-> "completeUpload", inner |-> "send"])

\* C5: when UploadFile fails after a chunk-upload task failed, the error
\* it returns wraps the first failure, the recorded cancellation cause.
\* (Stated for a source reader that never fails.)
C5_ReturnsFirstCause ==
  (upc = "returned" /\ r.kind = "full" /\ result.kind = "err" /\ ctx.cause.k = "chunk") =>
    result.err = [e |-> "ctxdone", cause |-> ctx.cause]

\* C6: a non-empty upload all of whose chunk uploads failed returns the
\* dedicated failure "no chunks successfully uploaded".
C6_NoChunksUploaded ==
  (/\ upc = "returned"
   /\ r.kind = "full" /\ r.len > 0 /\ r.pos = r.len
   /\ ctx.cause.k = "chunk"
   /\ \A t \in DOMAIN tasks : tasks[t].st = "gone" /\ ~tasks[t].ok) =>
    result = ErrResult([e |-> "noChunks"])

C8_ReadReturnsCause ==
  (/\ rpc = "idle" /\ failedAtEntry /\ p.len > 0
   /\ rdCtx.cause.k \in {"fetch", "toolarge"}) =>
    lastRead.err = [e |-> "lock", cause |-> rdCtx.cause]

C10_ChunkCount ==
  (Uploaded /\ r.len > 0) =>
    /\ result.file.Chunks = (r.len \div ChunkSize) + 1
    /\ Len(srvDone) = 1
    /\ srvDone[1].Chunks = (r.len \div ChunkSize) + 1
    /\ srvDone[1].Size = Itoa(r.len)
    /\ result.file.Size = r.len
C10_Witness ==
  /\ Uploaded
  /\ r.len = ChunkSize
  /\ result.file.Chunks = 2
  /\ srvDone[1].Chunks = 2

\* ================================================================ the cloud tree
\* FindItem, FindDirectory, FindDirectoryOrCreate, CreateDirectory and
\* TrashDirectory of filen/cloud.go, against a server that keeps directories
\* and files with their encrypted metadata.  A path is a sequence of the
\* characters "/" and "a"; a name is a sequence of "a".

\* longest path string handed to the calls
MaxPathLen == 3
\* most directories the server is asked to create in one behaviour
MaxDirs == 2

PathChars == {"/", "a"}
Paths == UNION {[1..n -> PathChars] : n \in 0..MaxPathLen}

\* strings.Split(path, "/")
RECURSIVE Split(_)
Split(path) ==
  IF path = <<>> THEN << <<>> >>
  ELSE LET rest == Split(Tail(path))
       IN IF Head(path) = "/" THEN << <<>> >> \o rest
          ELSE << <<Head(path)>> \o Head(rest) >> \o Tail(rest)
\* strings.Join(segments, "")
RECURSIVE Join(_)
Join(segments) == IF segments = <<>> THEN <<>> ELSE Head(segments) \o Join(Tail(segments))

\* what the calls return: a File, a Directory, the root, nil, or an error
NoUUID == <<>>
NilItem == [kind |-> "nil", UUID |-> NoUUID, Name |-> <<>>, ParentUUID |-> NoUUID]
ErrItem(e) == [kind |-> e, UUID |-> NoUUID, Name |-> <<>>, ParentUUID |-> NoUUID]
RootItem(api) == [kind |-> "root", UUID |-> api.BaseFolder, Name |-> <<>>, ParentUUID |-> NoUUID]
IsErr(item) == item.kind \notin {"nil", "root", "dir", "file"}

\* uuid.New().String() of the n-th call, and a UUID the client never made
NewUUID(n) == <<"uuid", n>>
ForeignUUID(n) == <<"foreign", n>>
\* the nonce a metadata envelope is sealed with (GenerateRandomString(12))
MetaNonce == "nonce"

\* json.Marshal of DirectoryMetaData, reduced to the name
MetaJSON(name) == [Name |-> name]

\* what the server keeps of a file after /v3/upload/done: the metadata
\* envelope, the chunk count of the request, the bucket and region of the
\* chunks
ServerFile(api, f) ==
  [uuid |-> f.UUID, parent |-> f.ParentUUID,
   meta |-> Filen_EncryptMeta(api, MetaNonce, FileMetadataOf(api.AuthVersion, f)),
   region |-> f.Region, bucket |-> f.Bucket, chunks |-> f.Chunks, favorited |-> 0]
\* a file of the given name and size uploaded into the root by the session
UploadedFile(api, uuid, name, sz) ==
  CompleteUploadFile(
    NewIncompleteFile(api.AuthVersion, uuid, name, [ms |-> 5000, sub |-> 300],
                      [ms |-> 6000, sub |-> 700], api.BaseFolder),
    "bucket", "region", sz, SHA512(Bytes(0, sz)))

\* POST /v3/dir/content as seen through ReadDirectory (362-438): the files and
\* the untrashed directories whose parent is uuid, metadata decrypted
ListedDirs(dirs, uuid) == SelectSeq(dirs, LAMBDA d : d.parent = uuid /\ ~d.trashed)
ListedFiles(files, uuid) == SelectSeq(files, LAMBDA f : f.parent = uuid)
ReadDirectory(api, dirs, files, uuid) ==
  LET fo == ListedDirs(dirs, uuid)
      fi == ListedFiles(files, uuid)
  IN IF \/ \E k \in 1..Len(fo) : ~Filen_DecryptMeta(api, fo[k].meta).ok
        \/ \E k \in 1..Len(fi) : ~Filen_DecryptMeta(api, fi[k].meta).ok
        \/ \E k \in 1..Len(fi) :
              ~MakeEncryptionKeyFromUnknownStrOK(Filen_DecryptMeta(api, fi[k].meta).val.Key)
     THEN [ok |-> FALSE, files |-> <<>>, directories |-> <<>>]
     ELSE [ok |-> TRUE,
           files |-> [k \in 1..Len(fi) |->
              [kind |-> "file", UUID |-> fi[k].uuid,
               Name |-> Filen_DecryptMeta(api, fi[k].meta).val.Name,
               ParentUUID |-> fi[k].parent]],
           directories |-> [k \in 1..Len(fo) |->
              [kind |-> "dir", UUID |-> fo[k].uuid,
               Name |-> Filen_DecryptMeta(api, fo[k].meta).val.Name,
               ParentUUID |-> fo[k].parent]]]

\* the first entry of a listing whose name is the segment (0: none)
FirstNamed(items, segment) ==
  LET m == {k \in 1..Len(items) : items[k].Name = segment}
  IN IF m = {} THEN 0 ELSE CHOOSE k \in m : \A j \in m : k <= j

\* FindItem (275-311), the loop from segment idx on
RECURSIVE FindItemFrom(_, _, _, _, _, _)
FindItemFrom(api, dirs, files, segments, idx, currentDir) ==
  IF idx > Len(segments) THEN ErrItem("unreachable")
  ELSE IF segments[idx] = <<>>
  THEN FindItemFrom(api, dirs, files, segments, idx + 1, currentDir)
  ELSE LET rd == ReadDirectory(api, dirs, files, currentDir.UUID)
           f == FirstNamed(rd.files, segments[idx])
           d == FirstNamed(rd.directories, segments[idx])
       IN IF ~rd.ok THEN ErrItem("read directory")
          ELSE IF f # 0 THEN rd.files[f]
          ELSE IF d # 0
          THEN IF idx = Len(segments) THEN rd.directories[d]
               ELSE FindItemFrom(api, dirs, files, segments, idx + 1, rd.directories[d])
          ELSE NilItem
FindItem(api, dirs, files, path, net) ==
  IF Len(Join(Split(path))) = 0 THEN RootItem(api)
  ELSE IF net # "ok" THEN ErrItem("read directory")
  ELSE FindItemFrom(api, dirs, files, Split(path), 1, RootItem(api))

\* FindDirectory (313-326)
FindDirectoryErr(api, dirs, files, path, net) ==
  LET item == FindItem(api, dirs, files, path, net)
  IN IF IsErr(item) THEN item
     ELSE IF item.kind \in {"nil", "file"} THEN ErrItem("is a file not a directory")
     ELSE item
FindDirectory(api, dirs, files, path, net) ==
  LET item == FindItem(api, dirs, files, path, net)
  IN IF IsErr(item) THEN item
     ELSE IF item.kind = "nil" THEN NilItem
     ELSE IF item.kind = "file" THEN ErrItem("is a file not a directory")
     ELSE item

\* CreateDirectory (446-476): the client makes the UUID, the server stores the
\* directory under it and answers with reply; the Directory returned carries
\* response.UUID
CreateDirectory(api, dirs, next, parentUUID, name, reply, net) ==
  IF net = "createFail"
  THEN [ok |-> FALSE, dir |-> ErrItem("dir create"), dirs |-> dirs, next |-> next + 1,
        sent |-> NewUUID(next), reply |-> NoUUID]
  ELSE [ok |-> TRUE,
        dir |-> [kind |-> "dir", UUID |-> reply, Name |-> name, ParentUUID |-> parentUUID],
        dirs |-> Append(dirs, [uuid |-> NewUUID(next),
                               meta |-> Filen_EncryptMeta(api, MetaNonce, MetaJSON(name)),
                               parent |-> parentUUID, trashed |-> FALSE]),
        next |-> next + 1, sent |-> NewUUID(next), reply |-> reply]

\* the UUID in the server's reply to dir/create: the one sent, or another one
ServerReply(next, rep) == IF rep = "same" THEN NewUUID(next) ELSE ForeignUUID(next)

\* FindDirectoryOrCreate (330-359): the directory of the listing that the
\* segment names (344-350); 0 when it has to be created.
\* FocAlwaysCreate is the variant that never finds one, against which the
\* idempotence claim is tested
FocAlwaysCreate(directories, segment) == 0
FocDirMatch(directories, segment) == FirstNamed(directories, segment)

\* FindDirectoryOrCreate (330-359), the loop from segment idx on; st carries
\* the server's directories, the UUID counter, the creations made so far and
\* the requests sent so far, in order ("list": dir/content, "create":
\* dir/create)
RECURSIVE FocFrom(_, _, _, _, _, _, _)
FocFrom(api, files, segments, idx, currentDir, st, net) ==
  IF idx > Len(segments) THEN [ret |-> currentDir, st |-> st]
  ELSE IF segments[idx] = <<>>
  THEN FocFrom(api, files, segments, idx + 1, currentDir, st, net)
  ELSE LET rd == ReadDirectory(api, st.dirs, files, currentDir.UUID)
           d == FocDirMatch(rd.directories, segments[idx])
           cr == CreateDirectory(api, st.dirs, st.next, currentDir.UUID, segments[idx],
                                 ServerReply(st.next, "same"), net)
           listed == [st EXCEPT !.log = Append(@, "list")]
       IN IF ~rd.ok \/ net = "listFail"
          THEN [ret |-> ErrItem("read directory"), st |-> listed]
          ELSE IF d # 0
          THEN FocFrom(api, files, segments, idx + 1, rd.directories[d], listed, net)
          ELSE IF ~cr.ok
          THEN [ret |-> cr.dir, st |-> [listed EXCEPT !.log = Append(@, "create")]]
          ELSE FocFrom(api, files, segments, idx + 1, cr.dir,
                       [dirs |-> cr.dirs, next |-> cr.next, creates |-> st.creates + 1,
                        log |-> Append(listed.log, "create")],
                       net)
FindDirectoryOrCreate(api, dirs, files, next, path, net) ==
  FocFrom(api, files, Split(path), 1, RootItem(api),
          [dirs |-> dirs, next |-> next, creates |-> 0, log |-> <<>>], net)

\* TrashDirectory (479-481): the server takes the directory out of listings
TrashDirectory(dirs, uuid) ==
  [k \in 1..Len(dirs) |-> IF dirs[k].uuid = uuid THEN [dirs[k] EXCEPT !.trashed = TRUE]
                          ELSE dirs[k]]

\* a session of auth version 2 as newV2Authed builds it: the master-key chain
\* with the key derived from the password first
V2Session(keys) ==
  [AuthVersion |-> 2, Email |-> "email", APIKey |-> "apiKey", MasterKeys |-> keys,
   DEK |-> "", KEK |-> "", BaseFolder |-> <<"base">>]

NoCall == [op |-> "none", net |-> "ok", ret |-> NilItem, creates |-> 0,
           repeat |-> FALSE, prev |-> NilItem, sent |-> NoUUID, reply |-> NoUUID,
           log |-> <<>>]

\* the transfer pipeline at rest
InitNoTransfer ==
  /\ r = [len |-> 0, kind |-> "full", pos |-> 0, zeros |-> 0]
  /\ upc = "off"
  /\ i = 0
  /\ size = 0
  /\ data = <<>>
  /\ readErr = "nil"
  /\ hasher = <<>>
  /\ ctx = LiveCtx
  /\ uploadSem = 0
  /\ wg = 0
  /\ bucketAndRegion = <<>>
  /\ done = FALSE
  /\ waiter = FALSE
  /\ tasks = <<>>
  /\ doneReq = [kind |-> "none"]
  /\ result = NoResult
  /\ cancelledBeforeDone = FALSE
  /\ srvChunks = <<>>
  /\ srvDone = <<>>
  /\ srvEmpty = <<>>
  /\ file = ZeroFile
  /\ InitReader

\* a logged-in session of auth version 2 on a drive that may already hold a
\* file "a" and a directory "a" in the root, the directory written under the
\* older key of a chain of two
InitFS ==
  /\ InitNoTransfer
  /\ InitNoMc
  /\ InitNoSz
  /\ InitNoFm
  /\ InitNoCl
  /\ InitNoAux
  /\ sess \in {V2Session(<<"mk1">>), V2Session(<<"mk1", "mk0">>)}
  /\ fsPath \in Paths
  /\ fsFiles \in {<<>>,
                  <<ServerFile(sess, UploadedFile(sess, <<"file", 1>>, <<"a">>, 1))>>}
  /\ fsDirs \in {<<>>,
                 <<[uuid |-> <<"old", 1>>,
                    meta |-> MasterKey_EncryptMeta(sess.MasterKeys[Len(sess.MasterKeys)],
                                                   MetaNonce, MetaJSON(<<"a">>)),
                    parent |-> sess.BaseFolder, trashed |-> FALSE]>>}
  /\ (Len(sess.MasterKeys) = 2) = (fsDirs # <<>>)
  /\ nextUUID = 1
  /\ fsLast = NoCall

\* a call of FindItem(fsPath)
FsFindItem(net) ==
  /\ fsLast' = [NoCall EXCEPT !.op = "FindItem", !.net = net,
                  !.ret = FindItem(sess, fsDirs, fsFiles, fsPath, net)]
  /\ UNCHANGED <<sess, fsPath, fsDirs, fsFiles, nextUUID>>
  /\ UNCHANGED fsRest

\* a call of FindDirectory(fsPath)
FsFindDirectory(net) ==
  /\ fsLast' = [NoCall EXCEPT !.op = "FindDirectory", !.net = net,
                  !.ret = FindDirectory(sess, fsDirs, fsFiles, fsPath, net)]
  /\ UNCHANGED <<sess, fsPath, fsDirs, fsFiles, nextUUID>>
  /\ UNCHANGED fsRest

\* a call of FindDirectoryOrCreate(fsPath); repeat tells that the call before
\* it was a FindDirectoryOrCreate too and returned a directory
FsFindDirectoryOrCreate(net) ==
  LET out == FindDirectoryOrCreate(sess, fsDirs, fsFiles, nextUUID, fsPath, net)
  IN /\ out.st.next - 1 <= MaxDirs
     /\ net # "ok" => IsErr(out.ret)
     /\ fsDirs' = out.st.dirs
     /\ nextUUID' = out.st.next
     /\ fsLast' = [NoCall EXCEPT !.op = "FindDirectoryOrCreate", !.net = net,
                     !.ret = out.ret, !.creates = out.st.creates,
                     !.log = out.st.log,
                     !.repeat = (fsLast.op = "FindDirectoryOrCreate"
                                 /\ fsLast.ret.kind \in {"dir", "root"}),
                     !.prev = IF fsLast.op = "FindDirectoryOrCreate"
                                 /\ fsLast.ret.kind \in {"dir", "root"}
                              THEN fsLast.ret ELSE NilItem]
     /\ UNCHANGED <<sess, fsPath, fsFiles>>
     /\ UNCHANGED fsRest

\* a call of CreateDirectory(root, name) for a name taken from fsPath
FsCreateDirectory(rep, net) ==
  /\ nextUUID <= MaxDirs
  /\ net \in {"ok", "createFail"}
  /\ \E k \in 1..Len(Split(fsPath)) :
       /\ Split(fsPath)[k] # <<>>
       /\ LET cr == CreateDirectory(sess, fsDirs, nextUUID, sess.BaseFolder,
                                    Split(fsPath)[k], ServerReply(nextUUID, rep), net)
          IN /\ fsDirs' = cr.dirs
             /\ nextUUID' = cr.next
             /\ fsLast' = [NoCall EXCEPT !.op = "CreateDirectory", !.net = net,
                             !.ret = cr.dir, !.creates = IF cr.ok THEN 1 ELSE 0,
                             !.sent = cr.sent, !.reply = cr.reply]
  /\ UNCHANGED <<sess, fsPath, fsFiles>>
  /\ UNCHANGED fsRest

\* a call of TrashDirectory on a directory of the drive
FsTrashDirectory ==
  /\ \E k \in 1..Len(fsDirs) :
       /\ ~fsDirs[k].trashed
       /\ fsDirs' = TrashDirectory(fsDirs, fsDirs[k].uuid)
  /\ fsLast' = [NoCall EXCEPT !.op = "TrashDirectory"]
  /\ UNCHANGED <<sess, fsPath, fsFiles, nextUUID>>
  /\ UNCHANGED fsRest

NextFS ==
  \/ \E net \in {"ok", "listFail"} : FsFindItem(net)
  \/ \E net \in {"ok", "listFail"} : FsFindDirectory(net)
  \/ \E net \in {"ok", "listFail", "createFail"} : FsFindDirectoryOrCreate(net)
  \/ \E rep \in {"same", "other"}, net \in {"ok", "createFail"} : FsCreateDirectory(rep, net)
  \/ FsTrashDirectory

SpecFS == InitFS /\ [][NextFS]_vars

\* ---------------------------------------------------------------- claims on the tree

\* the non-empty segments of a path
NonEmptySegments(path) == SelectSeq(Split(path), LAMBDA seg : seg # <<>>)

\* C11: FindDirectoryOrCreate is idempotent: a call that directly follows a
\* successful call with the same path returns the same Directory (UUID, name,
\* parent) and asks the server for no creation.
C11_Idempotent ==
  (fsLast.op = "FindDirectoryOrCreate" /\ fsLast.repeat /\ fsLast.net = "ok") =>
    /\ fsLast.ret = fsLast.prev
    /\ fsLast.creates = 0
\* the second of two calls on a two-level path whose directories the first
\* call had to create
C11_Witness ==
  /\ fsLast.op = "FindDirectoryOrCreate" /\ fsLast.repeat /\ fsLast.net = "ok"
  /\ fsLast.ret.kind = "dir"
  /\ Len(NonEmptySegments(fsPath)) = 2
  /\ nextUUID = 3
  /\ fsLast.ret.UUID = NewUUID(2)

\* C12: FindItem never returns a file for a segment that is not the last one:
\* the files of the drive lie in the root, so a File is returned only for a
\* path with a single non-empty segment.
C12_OnlyDirsOnIntermediate ==
  (fsLast.op = "FindItem" /\ fsLast.ret.kind = "file") =>
    Len(NonEmptySegments(fsPath)) = 1

\* the entries (files and untrashed directories) of directory uuid named name
\* exist / a directory among them
HasEntry(uuid, name) ==
  \/ FirstNamed(ReadDirectory(sess, fsDirs, fsFiles, uuid).files, name) # 0
  \/ FirstNamed(ReadDirectory(sess, fsDirs, fsFiles, uuid).directories, name) # 0
\* some segment from position idx on has no entry of its name in the listing
\* of the directory reached so far; the walk goes down through directories
\* and stays where it is when only a file carries the segment's name
RECURSIVE MissingFrom(_, _, _)
MissingFrom(segments, idx, uuid) ==
  IF idx > Len(segments) THEN FALSE
  ELSE IF ~HasEntry(uuid, segments[idx]) THEN TRUE
  ELSE LET ds == ReadDirectory(sess, fsDirs, fsFiles, uuid).directories
           d == FirstNamed(ds, segments[idx])
       IN MissingFrom(segments, idx + 1, IF d # 0 THEN ds[d].UUID ELSE uuid)

\* C13: FindItem and FindDirectory return nil without error whenever a
\* non-empty segment of the path has no entry of that name in the listing of
\* the directory reached so far.
C13_MissingIsNil ==
  (/\ fsLast.op \in {"FindItem", "FindDirectory"}
   /\ fsLast.net = "ok"
   /\ MissingFrom(NonEmptySegments(fsPath), 1, sess.BaseFolder)) =>
    fsLast.ret = NilItem

\* C14: CreateDirectory returns a Directory only if the UUID of the server's
\* reply is the UUID the client sent.
C14_ReplyUUIDChecked ==
  (fsLast.op = "CreateDirectory" /\ fsLast.ret.kind = "dir") =>
    fsLast.reply = fsLast.sent

\* ---------------------------------------------------------------- metadata envelopes

\* the longest master-key chain, and the metadata strings
MaxKeys == 3
KeyNames == <<"mk1", "mk2", "mk3", "mk4", "mk5">>
Keys == {KeyNames[k] : k \in 1..MaxKeys}
Msgs == {"m1", "m2"}
\* a key no session holds
ForeignKey == "mkX"

\* the chains NewMasterKeys (413-434) builds: at least the key derived from
\* the password, no key twice
Chains ==
  {c \in UNION {[1..n -> Keys] : n \in 1..MaxKeys} :
     \A a, b \in 1..Len(c) : c[a] = c[b] => a = b}

\* a session of auth version 3 as newV3Authed builds it
V3Session(dek) ==
  [AuthVersion |-> 3, Email |-> "email", APIKey |-> "apiKey", MasterKeys |-> <<>>,
   DEK |-> dek, KEK |-> "kek", BaseFolder |-> <<"base">>]

InitMC ==
  /\ InitNoTransfer
  /\ InitNoFS
  /\ InitNoSz
  /\ InitNoFm
  /\ InitNoCl
  /\ InitNoAux
  /\ mcApi \in {V2Session(c) : c \in Chains} \cup {V3Session("dek")}
  /\ mcMsg \in Msgs
  /\ mcEnv = NoEnv
  /\ mcOut = NoOut

\* an envelope with the place it came from
EnvFrom(from, e) == [from |-> from, ver |-> e.ver, nonce |-> e.nonce, body |-> e.body]

\* api.EncryptMeta(mcMsg)
McEncryptMeta ==
  /\ mcEnv' = EnvFrom("self", Filen_EncryptMeta(mcApi, MetaNonce, mcMsg))
  /\ mcOut' = NoOut
  /\ UNCHANGED <<mcApi, mcMsg>>
  /\ UNCHANGED mcRest

\* the server hands out an envelope written earlier: under any master key
\* (version 002) or under a data key (version 003)
McReceive(ver, key, msg) ==
  /\ mcEnv' = EnvFrom("server",
                      IF ver = 2 THEN MasterKey_EncryptMeta(key, MetaNonce, msg)
                      ELSE EncryptionKey_EncryptMeta(key, MetaNonce, msg))
  /\ mcOut' = NoOut
  /\ UNCHANGED <<mcApi, mcMsg>>
  /\ UNCHANGED mcRest

\* api.DecryptMeta(mcEnv)
McDecryptMeta ==
  /\ mcEnv.from # "none"
  /\ LET d == Filen_DecryptMeta(mcApi, mcEnv)
     IN mcOut' = [op |-> "DecryptMeta", ok |-> d.ok, val |-> d.val,
                  errs |-> d.errs, calls |-> d.calls,
                  used |-> DecryptMetaReceiver(mcApi, mcEnv)]
  /\ UNCHANGED <<mcApi, mcMsg, mcEnv>>
  /\ UNCHANGED mcRest

NextMC ==
  \/ McEncryptMeta
  \/ \E key \in Keys \cup {ForeignKey}, msg \in Msgs : McReceive(2, key, msg)
  \/ \E key \in {"dek", "dekX"}, msg \in Msgs : McReceive(3, key, msg)
  \/ McDecryptMeta

SpecMC == InitMC /\ [][NextMC]_vars

\* C15: on every session, of auth version 2 and of auth version 3,
\* DecryptMeta(EncryptMeta(m)) returns m: whenever DecryptMeta has been applied
\* to an envelope the session's own EncryptMeta produced, it succeeded with
\* the metadata that was encrypted.
C15_MetaRoundTrip ==
  (mcOut.op = "DecryptMeta" /\ mcEnv.from = "self") =>
    (mcOut.ok /\ mcOut.val = mcMsg)

\* the first position of the chain whose key opens the envelope, 0 if none
FirstOpening(ms, env) ==
  IF \E k \in 1..Len(ms) : ms[k] = env.body.key
  THEN CHOOSE k \in 1..Len(ms) :
         ms[k] = env.body.key /\ \A j \in 1..(k - 1) : ms[j] # env.body.key
  ELSE 0

\* C16: decryption with the master-key chain tries the keys in chain order; it
\* returns the plaintext of the first key that opens the envelope and calls no
\* later key; if no key opens it, it fails with one error per key of the
\* chain, in chain order.
C16_ChainOrder ==
  (mcOut.op = "DecryptMeta" /\ mcEnv.ver = "002") =>
    LET ms == mcApi.MasterKeys
        g == FirstOpening(ms, mcEnv)
    IN IF g # 0
       THEN /\ mcOut.ok
            /\ mcOut.val = mcEnv.body.pt
            /\ mcOut.calls = SubSeq(ms, 1, g)
       ELSE /\ ~mcOut.ok
            /\ Len(mcOut.errs) = Len(ms)
            /\ \A k \in 1..Len(ms) : mcOut.errs[k].key = ms[k]
\* a chain of three keys whose second key opens the envelope: the third is
\* never called
C16_Witness ==
  /\ mcOut.op = "DecryptMeta" /\ mcEnv.ver = "002"
  /\ Len(mcApi.MasterKeys) = 3
  /\ mcEnv.body.key = mcApi.MasterKeys[2]
  /\ mcOut.ok /\ Len(mcOut.calls) = 2

\* ---------------------------------------------------------------- session persistence

\* x509.MarshalPKCS1PrivateKey / ParsePKCS1PrivateKey and the public half of
\* a private key
MarshalPKCS1PrivateKey(priv) == <<"pkcs1", priv>>
ParsePKCS1OK(der) == Len(der) = 2 /\ der[1] = "pkcs1"
ParsePKCS1PrivateKey(der) == der[2]
PublicKeyOf(priv) == <<"pub", priv>>

\* the Filen struct as newV2Authed / newV3Authed fill it
FilenV2(apiKey, chain, priv, hmac) ==
  [Client |-> [APIKey |-> apiKey], AuthVersion |-> 2, Email |-> "email",
   MasterKeys |-> [k \in 1..Len(chain) |-> NewMasterKey(chain[k])],
   DEK |-> ZeroEncryptionKey, KEK |-> ZeroEncryptionKey,
   PrivateKey |-> priv, PublicKey |-> PublicKeyOf(priv),
   HMACKey |-> hmac, BaseFolder |-> [UUID |-> "base"]]
FilenV3(apiKey, dek, kek, priv, hmac) ==
  [Client |-> [APIKey |-> apiKey], AuthVersion |-> 3, Email |-> "email",
   MasterKeys |-> <<>>,
   DEK |-> MakeEncryptionKeyFromBytes(dek), KEK |-> MakeEncryptionKeyFromBytes(kek),
   PrivateKey |-> priv, PublicKey |-> PublicKeyOf(priv),
   HMACKey |-> hmac, BaseFolder |-> [UUID |-> "base"]]

\* Filen.serialize (136-152); serializeFirstKeyOnly is the variant that keeps
\* only the first master key
serializeFirstKeyOnly(api) ==
  [APIKey |-> api.Client.APIKey, AuthVersion |-> api.AuthVersion, Email |-> api.Email,
   MasterKeys |-> [k \in 1..Min(1, Len(api.MasterKeys)) |-> api.MasterKeys[k].Bytes],
   DEK |-> api.DEK.Bytes, KEK |-> api.KEK.Bytes,
   PrivateKey |-> MarshalPKCS1PrivateKey(api.PrivateKey),
   HMACKey |-> api.HMACKey, BaseFolderUUID |-> api.BaseFolder.UUID]
serialize(api) ==
  [APIKey |-> api.Client.APIKey, AuthVersion |-> api.AuthVersion, Email |-> api.Email,
   MasterKeys |-> [k \in 1..Len(api.MasterKeys) |-> api.MasterKeys[k].Bytes],
   DEK |-> api.DEK.Bytes, KEK |-> api.KEK.Bytes,
   PrivateKey |-> MarshalPKCS1PrivateKey(api.PrivateKey),
   HMACKey |-> api.HMACKey, BaseFolderUUID |-> api.BaseFolder.UUID]

\* encoding/gob: Encode sends the arrays and, of the other fields, those that
\* are not the zero value of their type (an empty slice is not sent); Decode
\* leaves the fields it does not receive at the zero value
GobArrays == {"DEK", "KEK", "HMACKey"}
GobFields ==
  {"APIKey", "AuthVersion", "Email", "MasterKeys", "DEK", "KEK", "PrivateKey",
   "HMACKey", "BaseFolderUUID"}
GobZero(f) ==
  CASE f = "AuthVersion" -> 0
    [] f \in {"MasterKeys", "PrivateKey"} -> <<>>
    [] f \in GobArrays -> Zero32
    [] OTHER -> ""
GobEncode(s) ==
  [kind |-> "gob",
   fields |-> [f \in {g \in GobFields : g \in GobArrays \/ s[g] # GobZero(g)} |-> s[f]]]
GobDecodeOK(buf) == buf.kind = "gob"
GobDecode(buf) ==
  [f \in GobFields |-> IF f \in DOMAIN buf.fields THEN buf.fields[f] ELSE GobZero(f)]

\* SerializableFilen.deserialize (154-198)
deserialize(s) ==
  IF ~ParsePKCS1OK(s.PrivateKey)
  THEN [op |-> "DeserializeFrom", ok |-> FALSE]
  ELSE [op |-> "DeserializeFrom", ok |-> TRUE,
        api |->
          [Client |-> [APIKey |-> s.APIKey], AuthVersion |-> s.AuthVersion,
           Email |-> s.Email,
           MasterKeys |-> [k \in 1..Len(s.MasterKeys) |-> NewMasterKey(s.MasterKeys[k])],
           DEK |-> IF s.AuthVersion >= 3 THEN MakeEncryptionKeyFromBytes(s.DEK)
                   ELSE ZeroEncryptionKey,
           KEK |-> IF s.AuthVersion >= 3 THEN MakeEncryptionKeyFromBytes(s.KEK)
                   ELSE ZeroEncryptionKey,
           PrivateKey |-> ParsePKCS1PrivateKey(s.PrivateKey),
           PublicKey |-> PublicKeyOf(ParsePKCS1PrivateKey(s.PrivateKey)),
           HMACKey |-> s.HMACKey,
           BaseFolder |-> [UUID |-> s.BaseFolderUUID]]]

\* SerializeTo (200-204) and DeserializeFrom (206-213)
SerializeTo(api) == GobEncode(serialize(api))
DeserializeFrom(buf) ==
  IF ~GobDecodeOK(buf) THEN [op |-> "DeserializeFrom", ok |-> FALSE]
  ELSE deserialize(GobDecode(buf))

InitSZ ==
  /\ InitNoTransfer
  /\ InitNoFS
  /\ InitNoMc
  /\ InitNoFm
  /\ InitNoCl
  /\ InitNoAux
  /\ szApi \in {FilenV2(a, c, pk, h) :
                  a \in {"apiKey1", "apiKey2"}, c \in Chains,
                  pk \in {"rsa1", "rsa2"}, h \in {Zero32, "hmacKey"}}
          \cup {FilenV3(a, "dek", "kek", pk, h) :
                  a \in {"apiKey1", "apiKey2"},
                  pk \in {"rsa1", "rsa2"}, h \in {Zero32, "hmacKey"}}
  /\ szBuf = NoBuf
  /\ szOut = NoSession

\* szApi.SerializeTo(buffer)
SzSerializeTo ==
  /\ szBuf' = SerializeTo(szApi)
  /\ szOut' = NoSession
  /\ UNCHANGED szApi
  /\ UNCHANGED szRest

\* the bytes are replaced by bytes no SerializeTo wrote
SzOverwrite ==
  /\ szBuf.kind = "gob"
  /\ szBuf' = [kind |-> "junk", fields |-> <<>>]
  /\ UNCHANGED <<szApi, szOut>>
  /\ UNCHANGED szRest

\* DeserializeFrom(buffer)
SzDeserializeFrom ==
  /\ szBuf.kind # "none"
  /\ szOut' = DeserializeFrom(szBuf)
  /\ UNCHANGED <<szApi, szBuf>>
  /\ UNCHANGED szRest

NextSZ == SzSerializeTo \/ SzOverwrite \/ SzDeserializeFrom

SpecSZ == InitSZ /\ [][NextSZ]_vars

\* C18: DeserializeFrom applied to what SerializeTo wrote succeeds and yields
\* a session with the same API key, auth version, email, master keys in
\* order, DEK, KEK, HMAC key, RSA key pair and base-folder UUID.
C18_SessionRoundTrip ==
  (szOut.op = "DeserializeFrom" /\ szBuf.kind = "gob") =>
    /\ szOut.ok
    /\ szOut.api.Client.APIKey = szApi.Client.APIKey
    /\ szOut.api.AuthVersion = szApi.AuthVersion
    /\ szOut.api.Email = szApi.Email
    /\ szOut.api.MasterKeys = szApi.MasterKeys
    /\ szOut.api.DEK = szApi.DEK
    /\ szOut.api.KEK = szApi.KEK
    /\ szOut.api.HMACKey = szApi.HMACKey
    /\ szOut.api.PrivateKey = szApi.PrivateKey
    /\ szOut.api.PublicKey = szApi.PublicKey
    /\ szOut.api.BaseFolder = szApi.BaseFolder
\* a session of auth version 2 with three master keys and a session of auth
\* version 3 come back from the buffer
C18_Witness ==
  /\ szOut.op = "DeserializeFrom" /\ szBuf.kind = "gob" /\ szOut.ok
  /\ \/ Len(szApi.MasterKeys) = 3 /\ Len(szOut.api.MasterKeys) = 3
     \/ szApi.AuthVersion = 3 /\ szOut.api.DEK.Bytes = "dek"

\* ---------------------------------------------------------------- the caller's File

\* how often the caller rewrites the metadata and tries to upload, the sizes
\* uploaded and the names given to the file
MaxMetaWrites == 2
MaxUploadTries == 2
UploadSizes == {1, ChunkSize, ChunkSize + 1}
FileNames == {<<"a">>, <<"a", "a">>}

\* a logged-in session of auth version 2 whose root may already hold a file "a"
InitFM ==
  /\ InitNoTransfer
  /\ InitNoCl
  /\ InitNoAux
  /\ InitNoMc
  /\ InitNoSz
  /\ sess \in {V2Session(<<"mk1">>), V2Session(<<"mk1", "mk0">>)}
  /\ fsPath \in Paths
  /\ fsFiles \in {<<>>, <<ServerFile(sess, UploadedFile(sess, <<"file", 1>>, <<"a">>, 1))>>}
  /\ fsDirs = <<>>
  /\ nextUUID = 1
  /\ fsLast = NoCall
  /\ fmHeld = NoHeld
  /\ fmFound = NoFile

\* UploadFile of a new file into the root: on success the server keeps the
\* file and the caller holds the File that completeUpload returns
FmUploadFile(name, sz, net) ==
  /\ fmHeld.kind = "none"
  /\ nextUUID <= MaxUploadTries
  /\ FirstNamed(ReadDirectory(sess, fsDirs, fsFiles, sess.BaseFolder).files, name) = 0
  /\ LET f == UploadedFile(sess, NewUUID(nextUUID), name, sz)
     IN IF net = "ok"
        THEN /\ fsFiles' = Append(fsFiles, ServerFile(sess, f))
             /\ fmHeld' = [kind |-> "file", file |-> f, written |-> TRUE, writes |-> 0]
        ELSE UNCHANGED <<fsFiles, fmHeld>>
  /\ nextUUID' = nextUUID + 1
  /\ fsLast' = [NoCall EXCEPT !.op = "UploadFile", !.net = net]
  /\ fmFound' = NoFile
  /\ UNCHANGED <<sess, fsPath, fsDirs>>
  /\ UNCHANGED fmRest

\* the caller moves both timestamps by a second and calls UpdateMeta
\* (public.go 68-91), which replaces the metadata the server keeps
FmUpdateMeta(net) ==
  /\ fmHeld.kind = "file"
  /\ fmHeld.writes < MaxMetaWrites
  /\ LET f == [fmHeld.file EXCEPT !.Created = AddSecond(@),
                                  !.LastModified = AddSecond(@)]
     IN /\ fmHeld' = [kind |-> "file", file |-> f, written |-> net = "ok",
                      writes |-> fmHeld.writes + 1]
        /\ fsFiles' =
             IF net # "ok" THEN fsFiles
             ELSE [k \in 1..Len(fsFiles) |->
                     IF fsFiles[k].uuid = f.UUID
                     THEN [fsFiles[k] EXCEPT !.meta =
                             Filen_EncryptMeta(sess, MetaNonce,
                                               FileMetadataOf(sess.AuthVersion, f))]
                     ELSE fsFiles[k]]
  /\ fsLast' = [NoCall EXCEPT !.op = "UpdateMeta", !.net = net]
  /\ fmFound' = NoFile
  /\ UNCHANGED <<sess, fsPath, fsDirs, nextUUID>>
  /\ UNCHANGED fmRest

\* the File behind an item that FindItem returned
FoundFile(api, files, item) ==
  IF item.kind # "file" THEN NoFile
  ELSE LET k == CHOOSE j \in 1..Len(files) : files[j].uuid = item.UUID
       IN FileOf(files[k], Filen_DecryptMeta(api, files[k].meta).val)

\* a call of FindItem(fsPath)
FmFindItem(net) ==
  /\ LET item == FindItem(sess, fsDirs, fsFiles, fsPath, net)
     IN /\ fsLast' = [NoCall EXCEPT !.op = "FindItem", !.net = net, !.ret = item]
        /\ fmFound' = FoundFile(sess, fsFiles, item)
  /\ UNCHANGED <<sess, fsPath, fsDirs, fsFiles, nextUUID, fmHeld>>
  /\ UNCHANGED fmRest

NextFM ==
  \/ \E name \in FileNames, sz \in UploadSizes, net \in {"ok", "fail"} :
       FmUploadFile(name, sz, net)
  \/ \E net \in {"ok", "fail"} : FmUpdateMeta(net)
  \/ \E net \in {"ok", "fail"} : FmFindItem(net)

SpecFM == InitFM /\ [][NextFM]_vars

\* C17: after UploadFile, and again after an UpdateMeta that changed the
\* timestamps, FindItem on the file's name returns a File equal to the File
\* the caller holds in every field, the encryption key included.
C17_FoundEqualsHeld ==
  (/\ fsLast.op = "FindItem" /\ fsLast.net = "ok"
   /\ fmHeld.kind = "file" /\ fmHeld.written
   /\ fsPath = fmHeld.file.Name) =>
    /\ fsLast.ret.kind = "file"
    /\ fmFound = fmHeld.file
\* the file is found after its metadata was rewritten twice
C17_Witness ==
  /\ fsLast.op = "FindItem" /\ fsLast.net = "ok"
  /\ fmHeld.kind = "file" /\ fmHeld.written /\ fmHeld.writes = 2
  /\ fsPath = fmHeld.file.Name
  /\ fmFound.UUID = fmHeld.file.UUID
  /\ fmFound.Created.ms = 7000
  /\ fmFound.EncryptionKey = fmHeld.file.EncryptionKey

\* ---------------------------------------------------------------- session bootstrap

\* the most requests one call sends, for the choice of the request that the
\* transport fails
MaxRequests == 5

\* a request as built: the endpoint, the URL pool, whether it was called on a
\* Client (a value that holds an API key), and the Authorization header
\* UnauthorizedClient.buildJSONRequest / buildReaderRequest (client.go 74-80, 91-106)
UC_buildRequest(ep, pool, loggedIn) ==
  [ep |-> ep, pool |-> pool, loggedIn |-> loggedIn, auth |-> <<>>]
\* Client.buildJSONRequest / buildReaderRequest (client.go 82-89, 108-115)
C_buildRequest(c, ep, pool) ==
  [UC_buildRequest(ep, pool, TRUE) EXCEPT !.auth = <<"Bearer", c.APIKey>>]

\* UnauthorizedClient.PostV3AuthInfo and PostV3Login: methods of the
\* UnauthorizedClient, which a Client embeds
PostV3AuthInfo(loggedIn) == UC_buildRequest("/v3/auth/info", "gateway", loggedIn)
PostV3Login(loggedIn) == UC_buildRequest("/v3/login", "gateway", loggedIn)
\* the calls of a Client on the gateway (Client.Request, client.go 195-201)
C_Request(c, ep) == C_buildRequest(c, ep, "gateway")
\* Client.PostV3Upload: the ingest pool, through buildReaderRequest
C_PostV3Upload(c) == C_buildRequest(c, "/v3/upload", "ingest")
\* Client.DownloadFileChunk (client.go 254-277): the egest pool, through
\* Client.buildJSONRequest
C_DownloadFileChunk(c) == C_buildRequest(c, "/region/bucket/uuid/0", "egest")

\* UnauthorizedClient.Authorize (client.go 33-38) and client.NewWithAPIKey
Authorize(apiKey) == [APIKey |-> apiKey]
ClientNewWithAPIKey(apiKey) == [APIKey |-> apiKey]

\* the accounts: of auth version 2 with the master keys the server lists (the
\* key of the password alone, after an older key, between two other keys, or
\* listed twice) and a public key that is or is not the half of the private
\* key, or with no key pair yet (keyPair/info replies with empty strings), of
\* auth version 3 with a DEK sealed under the KEK
NoKeyPairYet ==
  [ver |-> "", nonce |-> [enc |-> "raw", n |-> ""],
   body |-> [enc |-> "raw", key |-> "", nonce |-> "", pt |-> ""]]
Accounts ==
  {[AuthVersion |-> 2, APIKey |-> "apiKey", Stored |-> ks, BaseFolder |-> "base",
    KeysEnv |-> MasterKey_EncryptMeta("mk1", MetaNonce, ks),
    DEKEnv |-> NewEncryptedStringV3(Seal("", MetaNonce, ""), MetaNonce),
    PrivEnv |-> MasterKey_EncryptMeta(ks[1], MetaNonce, "rsa1"),
    PublicKey |-> PublicKeyOf(pub)] :
     ks \in {<<"mk1">>, <<"mk0", "mk1">>, <<"mk0", "mk1", "mk2">>,
             <<"mk1", "mk0", "mk1">>},
     pub \in {"rsa1", "rsaX"}}
  \cup
  {[AuthVersion |-> 2, APIKey |-> "apiKey", Stored |-> <<"mk1">>, BaseFolder |-> "base",
    KeysEnv |-> MasterKey_EncryptMeta("mk1", MetaNonce, <<"mk1">>),
    DEKEnv |-> NewEncryptedStringV3(Seal("", MetaNonce, ""), MetaNonce),
    PrivEnv |-> NoKeyPairYet,
    PublicKey |-> PublicKeyOf("")]}
  \cup
  {[AuthVersion |-> 3, APIKey |-> "apiKey", Stored |-> <<>>, BaseFolder |-> "base",
    KeysEnv |-> MasterKey_EncryptMeta("", MetaNonce, <<>>),
    DEKEnv |-> EncryptionKey_EncryptMeta("kek", MetaNonce, "dek"),
    PrivEnv |-> EncryptionKey_EncryptMeta("dek", MetaNonce, "rsa1"),
    PublicKey |-> PublicKeyOf("rsa1")]}

\* DeriveMKAndAuthFromPassword (580-598) and DeriveKEKAndAuthFromPassword
\* (654-664): the key and the auth token are functions of the password
DeriveMKAndAuthFromPassword(password) ==
  IF password = "pw" THEN [key |-> "mk1", auth |-> "token"]
  ELSE [key |-> "mkW", auth |-> "tokenW"]
DeriveKEKAndAuthFromPassword(password) ==
  IF password = "pw" THEN [key |-> "kek", auth |-> "token"]
  ELSE [key |-> "kekW", auth |-> "tokenW"]

\* the server answers the last request of the log: the transport did not fail
\* at it, and an endpoint other than auth/info and login has the account's key
Answered(srv, log, fail) ==
  LET q == log[Len(log)]
  IN /\ Len(log) # fail
     /\ q.ep \in {"/v3/auth/info", "/v3/login"} \/ q.auth = <<"Bearer", srv.APIKey>>

Failed(log, e, fail) == [run |-> TRUE, ok |-> FALSE, err |-> e, log |-> log, fail |-> fail]
Built(log, api, fail) == [run |-> TRUE, ok |-> TRUE, api |-> api, log |-> log, fail |-> fail]
\* the call did not return: a slice expression ran past the end of a string
Aborted(log, fail) == Failed(log, "panic", fail)

\* NewMasterKeys (413-434): the key derived from the password first, then the
\* keys of the string that differ from it; NewMasterKeysKeepAll is the
\* variant that drops no key of the string, against which the claim on the
\* chain is tested
NewMasterKeysKeepAll(encryptionKey, stringKeys) ==
  <<encryptionKey>> \o stringKeys
NewMasterKeys(encryptionKey, stringKeys) ==
  <<encryptionKey>> \o SelectSeq(stringKeys, LAMBDA k : k # encryptionKey)
\* MasterKeys.DecryptMeta (450-458)
MasterKeys_DecryptMeta(ms, encrypted) ==
  IF encrypted.ver = "002" THEN MasterKeys_DecryptMetaV2(ms, encrypted)
  ELSE DecryptErr([e |-> "format", key |-> ""])

\* the slices encrypted[0:8] of MasterKeys.DecryptMeta (450-458) and
\* metadata[0:3] of EncryptionKey.DecryptMeta (612-625) are out of range on a
\* string that is too short to hold a version prefix
SliceOutOfRange(encrypted) == encrypted.ver = ""

\* RSAKeyPairFromStrings (713-747): the public key of the reply has to be the
\* half of the private key
RSAKeyPairOK(privKey, pubKey) == pubKey = PublicKeyOf(privKey)

\* newV2Authed (159-184): getMasterKeys, getKeyPair, GetV3UserBaseFolder
newV2Authed(srv, c, masterKey, log0, fail) ==
  LET log1 == Append(log0, C_Request(c, "/v3/user/masterKeys"))
      keysStr == MasterKey_DecryptMetaV2(masterKey, srv.KeysEnv)
      masterKeys == NewMasterKeys(masterKey, keysStr.val)
      log2 == Append(log1, C_Request(c, "/v3/user/keyPair/info"))
      priv == MasterKeys_DecryptMeta(masterKeys, srv.PrivEnv)
      log3 == Append(log2, C_Request(c, "/v3/user/baseFolder"))
  IN IF ~Answered(srv, log1, fail) \/ ~keysStr.ok THEN Failed(log1, "getMasterKeys", fail)
     ELSE IF ~Answered(srv, log2, fail) THEN Failed(log2, "getKeyPair", fail)
     ELSE IF SliceOutOfRange(srv.PrivEnv) THEN Aborted(log2, fail)
     ELSE IF ~priv.ok \/ ~RSAKeyPairOK(priv.val, srv.PublicKey)
     THEN Failed(log2, "getKeyPair", fail)
     ELSE IF ~Answered(srv, log3, fail) THEN Failed(log3, "baseFolder", fail)
     ELSE Built(log3, FilenV2(c.APIKey, masterKeys, priv.val, Zero32), fail)

\* newV3Authed (204-230): getDEK, getKeyPair, GetV3UserBaseFolder
newV3Authed(srv, c, kek, log0, fail) ==
  LET log1 == Append(log0, C_Request(c, "/v3/user/dek"))
      dekStr == EncryptionKey_DecryptMeta(kek, srv.DEKEnv)
      log2 == Append(log1, C_Request(c, "/v3/user/keyPair/info"))
      priv == EncryptionKey_DecryptMeta(dekStr.val, srv.PrivEnv)
      log3 == Append(log2, C_Request(c, "/v3/user/baseFolder"))
  IN IF ~Answered(srv, log1, fail) \/ ~dekStr.ok THEN Failed(log1, "getDEK", fail)
     ELSE IF ~Answered(srv, log2, fail) THEN Failed(log2, "getKeyPair", fail)
     ELSE IF SliceOutOfRange(srv.PrivEnv) THEN Aborted(log2, fail)
     ELSE IF ~priv.ok \/ ~RSAKeyPairOK(priv.val, srv.PublicKey)
     THEN Failed(log2, "getKeyPair", fail)
     ELSE IF ~Answered(srv, log3, fail) THEN Failed(log3, "baseFolder", fail)
     ELSE Built(log3, FilenV3(c.APIKey, dekStr.val, kek, priv.val, Zero32), fail)

\* New (36-55) with newV2 / loginV2 and newV3 / loginV3: the server accepts
\* the login of the right password and replies with the account's API key
New(srv, password, fail) ==
  LET log1 == <<PostV3AuthInfo(FALSE)>>
      log2 == Append(log1, PostV3Login(FALSE))
      c == Authorize(srv.APIKey)
  IN IF ~Answered(srv, log1, fail) THEN Failed(log1, "authInfo", fail)
     ELSE IF ~Answered(srv, log2, fail) \/ password # "pw" THEN Failed(log2, "login", fail)
     ELSE IF srv.AuthVersion = 2
     THEN newV2Authed(srv, c, DeriveMKAndAuthFromPassword(password).key, log2, fail)
     ELSE newV3Authed(srv, c, DeriveKEKAndAuthFromPassword(password).key, log2, fail)

\* NewWithAPIKey (57-76) with newV2WithAPIKey and newV3WithAPIKey;
\* NewWithAPIKeyByLogin is the variant that logs in as New does
NewWithAPIKeyByLogin(srv, password, apiKey, fail) == New(srv, password, fail)
NewWithAPIKey(srv, password, apiKey, fail) ==
  LET c == ClientNewWithAPIKey(apiKey)
      log1 == <<PostV3AuthInfo(TRUE)>>
  IN IF ~Answered(srv, log1, fail) THEN Failed(log1, "authInfo", fail)
     ELSE IF srv.AuthVersion = 2
     THEN newV2Authed(srv, c, DeriveMKAndAuthFromPassword(password).key, log1, fail)
     ELSE newV3Authed(srv, c, DeriveKEKAndAuthFromPassword(password).key, log1, fail)

InitCL ==
  /\ InitNoTransfer
  /\ InitNoAux
  /\ InitNoFS
  /\ InitNoMc
  /\ InitNoSz
  /\ InitNoFm
  /\ clSrv \in Accounts
  /\ clPw \in {"pw", "wrong"}
  /\ clNew = NoRun
  /\ clKeyed = NoRun
  /\ clLog = <<>>

\* New(email, password); fail is the request the transport fails (0: none)
ClNew(fail) ==
  /\ clNew' = New(clSrv, clPw, fail)
  /\ clLog' = clNew'.log
  /\ UNCHANGED <<clSrv, clPw, clKeyed>>
  /\ UNCHANGED clRest

\* NewWithAPIKey(email, password, apiKey)
ClNewWithAPIKey(apiKey, fail) ==
  /\ LET out == NewWithAPIKey(clSrv, clPw, apiKey, fail)
     IN IF out.ok
        THEN clKeyed' = [run |-> TRUE, ok |-> TRUE, api |-> out.api, log |-> out.log,
                         fail |-> fail, supplied |-> apiKey]
        ELSE clKeyed' = [run |-> TRUE, ok |-> FALSE, err |-> out.err, log |-> out.log,
                         fail |-> fail, supplied |-> apiKey]
  /\ clLog' = clKeyed'.log
  /\ UNCHANGED <<clSrv, clPw, clNew>>
  /\ UNCHANGED clRest

\* the sessions that were built
Sessions ==
  (IF clNew.ok THEN {clNew.api} ELSE {}) \cup (IF clKeyed.ok THEN {clKeyed.api} ELSE {})

\* a call of a session on the gateway
ClGatewayCall(ep) ==
  /\ \E api \in Sessions : clLog' = <<C_Request(api.Client, ep)>>
  /\ UNCHANGED <<clSrv, clPw, clNew, clKeyed>>
  /\ UNCHANGED clRest

\* the upload of a chunk
ClPostV3Upload ==
  /\ \E api \in Sessions : clLog' = <<C_PostV3Upload(api.Client)>>
  /\ UNCHANGED <<clSrv, clPw, clNew, clKeyed>>
  /\ UNCHANGED clRest

\* the download of a chunk
ClDownloadFileChunk ==
  /\ \E api \in Sessions : clLog' = <<C_DownloadFileChunk(api.Client)>>
  /\ UNCHANGED <<clSrv, clPw, clNew, clKeyed>>
  /\ UNCHANGED clRest

NextCL ==
  \/ \E fail \in 0..MaxRequests : ClNew(fail)
  \/ \E apiKey \in {"apiKey", "stale"}, fail \in 0..MaxRequests : ClNewWithAPIKey(apiKey, fail)
  \/ \E ep \in {"/v3/dir/content", "/v3/dir/create", "/v3/file/metadata",
                "/v3/upload/done"} : ClGatewayCall(ep)
  \/ ClPostV3Upload
  \/ ClDownloadFileChunk

SpecCL == InitCL /\ [][NextCL]_vars

\* the fields in which two sessions have to agree
SameSession(a, b) ==
  /\ a.AuthVersion = b.AuthVersion
  /\ a.MasterKeys = b.MasterKeys
  /\ a.DEK = b.DEK /\ a.KEK = b.KEK
  /\ a.PrivateKey = b.PrivateKey /\ a.PublicKey = b.PublicKey
  /\ a.BaseFolder = b.BaseFolder

\* C19: NewWithAPIKey never calls /v3/login; the session it yields sends the
\* API key supplied; against the same account it yields a session when New
\* does (the key being the account's and no request failing), and the two
\* sessions agree in auth version, master keys, DEK, KEK, key pair and base
\* folder.
C19_KeyedEqualsNew ==
  /\ clKeyed.run => \A k \in 1..Len(clKeyed.log) : clKeyed.log[k].ep # "/v3/login"
  /\ (clKeyed.run /\ clKeyed.ok) =>
       /\ clKeyed.api.Client.APIKey = clKeyed.supplied
       /\ \A k \in 2..Len(clKeyed.log) :
            clKeyed.log[k].auth = <<"Bearer", clKeyed.supplied>>
  /\ (clNew.run /\ clKeyed.run /\ clNew.ok /\ clKeyed.ok) =>
       SameSession(clNew.api, clKeyed.api)
  /\ (/\ clNew.run /\ clKeyed.run
      /\ clNew.fail = 0 /\ clKeyed.fail = 0
      /\ clKeyed.supplied = clSrv.APIKey) =>
       clNew.ok = clKeyed.ok
\* both calls built a session on an account with two master keys
C19_Witness ==
  /\ clNew.run /\ clKeyed.run /\ clNew.ok /\ clKeyed.ok
  /\ Len(clKeyed.api.MasterKeys) = 2
  /\ Len(clNew.log) = 5 /\ Len(clKeyed.log) = 4

\* a request has to carry the header: it is made on a logged-in client and is
\* neither auth/info, nor login, nor a GET on the egest pool
HeaderExpected(q) ==
  /\ q.loggedIn
  /\ q.ep \notin {"/v3/auth/info", "/v3/login"}
  /\ q.pool # "egest"

\* C20: a request carries "Authorization: Bearer <apiKey>" if and only if it
\* is made by a logged-in session and is neither auth/info, nor login, nor an
\* egest chunk GET.
C20_BearerIff ==
  \A k \in 1..Len(clLog) : (clLog[k].auth # <<>>) = HeaderExpected(clLog[k])

\* ================================================================ the chunks of an upload

\* C24: after UploadFile returned a File for a non-empty upload, the chunk
\* indices POSTed to /v3/upload are exactly 0 .. File.Chunks - 1, so every
\* index the download reader will request is stored.
C24_IndicesMatchChunks ==
  (Uploaded /\ r.len > 0) =>
    DOMAIN srvChunks = 0..(result.file.Chunks - 1)

\* C25: every chunk POSTed by UploadFile other than the one with the highest
\* index carries exactly ChunkSize plaintext bytes.
C25_FullChunks ==
  \A t \in DOMAIN tasks :
    (\E u \in DOMAIN tasks : u > t) => Len(tasks[t].data) = ChunkSize

\* ================================================================ the ring buffer

\* the plaintext of chunk k as the server holds it for the File's key
ChunkPlain(k) ==
  IF k \in DOMAIN srvChunks /\ DecryptOK(file.key, srvChunks[k])
  THEN DecryptData(file.key, srvChunks[k])
  ELSE <<>>

\* C27: Read hands the caller only plaintext of the chunk at the reader's
\* current index: the bytes delivered are the chunks below chunkIndex and
\* the first offsetInChunk bytes of chunk chunkIndex, and the reader never
\* moves past a chunk whose fetch failed.
C27_OnlyCurrentChunk ==
  rpc # "none" =>
    /\ \A k \in fetchFailed : chunkIndex <= k
    /\ delivered = PlainOf(srvChunks, chunkIndex) \o
                   SubSeq(ChunkPlain(chunkIndex), 1, offsetInChunk)

\* C28: every slot in which a fetch task is writing is locked, so the
\* consumer cannot read it and no second fetch can reserve it; MustLock never
\* finds a slot locked and Unlock never finds one unlocked (no panic), also
\* after a fetch failure and after Close.
C28_SlotExclusive ==
  /\ ~panicked
  /\ \A s \in DOMAIN buffer : buffer[s].fetch \in {"fetch", "unlock"} => buffer[s].locked
\* a slot has been reserved a second time, a fetch has failed and the reader
\* is closed
C28_Witness ==
  /\ \E s \in DOMAIN buffer : buffer[s].idx >= Len(buffer)
  /\ fetchFailed # {}
  /\ closeRet # "none"
  /\ ~panicked

\* a fetch is started in slot s by this step
FetchStarted(s) ==
  /\ s \in DOMAIN buffer'
  /\ buffer'[s].fetch = "fetch"
  /\ s \in DOMAIN buffer => (buffer[s].fetch # "fetch" \/ buffer[s].idx # buffer'[s].idx)

\* C29: the reader has min(MaxBufferSize, file.Chunks) slots; at most that
\* many fetches are in flight; a fetch is started only for an index below
\* file.Chunks and at most that many positions ahead of the chunk being read;
\* no index is fetched twice (the indices a slot fetches increase strictly,
\* and the slots fetch indices of different residues).
C29_Prefetch ==
  [][rpc' # "none" =>
      /\ Len(buffer') = Min(MaxBufferSize, file'.Chunks)
      /\ Cardinality({s \in DOMAIN buffer' : buffer'[s].fetch = "fetch"}) <= Len(buffer')
      /\ \A s \in DOMAIN buffer' :
           /\ buffer'[s].idx % Len(buffer') = s - 1
           /\ FetchStarted(s) =>
                /\ buffer'[s].idx < file'.Chunks
                /\ buffer'[s].idx <= chunkIndex + Len(buffer')
                /\ s \in DOMAIN buffer => buffer'[s].idx > buffer[s].idx]_vars
\* every slot of a full ring has fetched a second chunk
C29_Witness ==
  /\ Len(buffer) = MaxBufferSize
  /\ file.Chunks > MaxBufferSize
  /\ \E s \in DOMAIN buffer : buffer[s].idx >= Len(buffer) /\ buffer[s].fetch = "fetch"

\* the response of the POST of chunk t
UploadResponse(t) == [Bucket |-> <<t>>, Region |-> <<t>>]

\* C30: the bucket and region of the done call and of the File are those of
\* the first chunk upload to succeed: the first response is put in the
\* channel, a later one leaves the channel as it is and its task goes on, the
\* done call takes the pair from the channel and the File carries the pair of
\* the done call.
C30_FirstResponse ==
  [][/\ \A t \in DOMAIN tasks :
          (t \in DOMAIN tasks' /\ ~tasks[t].ok /\ tasks'[t].ok) =>
            /\ bucketAndRegion' = IF \E u \in DOMAIN tasks : tasks[u].ok
                                  THEN bucketAndRegion
                                  ELSE <<UploadResponse(t)>>
            /\ bucketAndRegion' # <<>>
            /\ tasks'[t].st = "wgdone"
     /\ (doneReq.kind # "done" /\ doneReq'.kind = "done") =>
          doneReq'.resp = Head(bucketAndRegion)
     /\ (result'.kind = "file" /\ result.kind # "file" /\ size > 0) =>
          /\ result'.file.Bucket = doneReq.resp.Bucket
          /\ result'.file.Region = doneReq.resp.Region]_vars
\* the File carries the pair of chunk 1, which succeeded before chunk 0
C30_Witness ==
  /\ Uploaded
  /\ result.file.Bucket = UploadResponse(1).Bucket
  /\ 0 \in DOMAIN srvChunks /\ 1 \in DOMAIN srvChunks

\* ================================================================ termination of UploadFile

\* UploadFile alone, from its call on.  Every step of UploadNext is a step of
\* a goroutine that is ready to run or a reply of the transport, and the
\* steps cannot go on for ever (the source ends, the tasks are finitely many),
\* so weak fairness of UploadNext says that the scheduler runs what is ready,
\* the source ends and every transport call returns.
InitUT ==
  /\ InitUpload
  /\ InitNoFS /\ InitNoMc /\ InitNoSz /\ InitNoFm /\ InitNoCl
  /\ InitNoAux

SpecUT == InitUT /\ [][UploadNext]_vars /\ WF_vars(UploadNext)

\* C26: UploadFile eventually returns to its caller.
C26_Terminates == <>(upc = "returned")

\* ================================================================ JSON endpoint calls
\* handleRequest, Request and RequestData of filen/client/client.go, the
\* endpoint methods built on them and what their callers do with the return.

\* errors: the kind, the message and code of a status=false reply, and the
\* prefixes fmt.Errorf("...: %w") put in front
NilErr == [kind |-> "nil", Message |-> "", Code |-> "", wrap |-> <<>>]
NewErr(kind) == [kind |-> kind, Message |-> "", Code |-> "", wrap |-> <<>>]
Wrap(prefix, err) == [err EXCEPT !.wrap = <<prefix>> \o @]

\* values an endpoint method returns beside the error
NilValue == [kind |-> "nil"]
ZeroValue == [kind |-> "zero"]
DecodedValue == [kind |-> "decoded"]

\* the replies: the request cannot be sent, the body is not JSON, or the
\* body is the envelope {status, message, code, data}
Replies ==
  {[kind |-> "sendErr", Status |-> FALSE, Message |-> "", Code |-> "", Data |-> "nil"],
   [kind |-> "garbage", Status |-> FALSE, Message |-> "", Code |-> "", Data |-> "nil"]}
  \cup [kind : {"json"}, Status : BOOLEAN, Message : {"", "m"}, Code : {"ok", "c"},
        Data : {"nil", "good", "bad"}]

\* parseResponse (121-133)
parseResponse(reply) ==
  IF reply.kind = "garbage" THEN [res |-> reply, err |-> NewErr("unmarshal response")]
  ELSE [res |-> reply, err |-> NilErr]

\* aPIResponse.CheckError (225-230); CheckErrorNever is the variant that
\* accepts every reply, against which the status claim is tested
CheckErrorNever(res) == NilErr
CheckError(res) ==
  IF ~res.Status
  THEN [kind |-> "response error", Message |-> res.Message, Code |-> res.Code, wrap |-> <<>>]
  ELSE NilErr

\* handleRequest (138-158): (apiRes, err), apiRes being nil with an error
handleRequest(reply) ==
  IF reply.kind = "sendErr" THEN [ok |-> FALSE, res |-> reply, err |-> NewErr("cannot send")]
  ELSE IF parseResponse(reply).err # NilErr
  THEN [ok |-> FALSE, res |-> reply, err |-> parseResponse(reply).err]
  ELSE IF CheckError(parseResponse(reply).res) # NilErr
  THEN [ok |-> FALSE, res |-> reply, err |-> CheckError(parseResponse(reply).res)]
  ELSE [ok |-> TRUE, res |-> parseResponse(reply).res, err |-> NilErr]

\* aPIResponse.IntoData (240-250): the error, and whether outData was written
IntoData(res) ==
  IF res.Data = "nil" THEN NewErr("no data")
  ELSE IF res.Data = "bad" THEN NewErr("unmarshal data")
  ELSE NilErr

\* Request (175-181, 195-201): (response, err)
Request(reply) == handleRequest(reply)

\* RequestData (183-193, 203-213) with convertIntoResponseData (162-173):
\* the error and the state of outData, which is written only by IntoData
RequestData(reply) ==
  IF ~Request(reply).ok THEN [err |-> Request(reply).err, out |-> ZeroValue]
  ELSE IF IntoData(Request(reply).res) # NilErr
  THEN [err |-> Wrap("cannot unmarshal response data", IntoData(Request(reply).res)),
        out |-> ZeroValue]
  ELSE [err |-> NilErr, out |-> DecodedValue]

\* the endpoint methods: how each reaches the transport and what it returns
\* beside a non-nil error
\*   "out":  return out, err          (the pointer handed to RequestData)
\*   "nil":  if err != nil { return nil, err }
\*   "none": the method returns the error only (through Request)
\*   "raw":  PostV3Upload: handleRequest, then IntoData
Endpoints ==
  {[ep |-> "/v3/auth/info", style |-> "out", wrap |-> <<>>],
   [ep |-> "/v3/login", style |-> "out", wrap |-> <<>>],
   [ep |-> "/v3/user/masterKeys", style |-> "out", wrap |-> <<>>],
   [ep |-> "/v3/user/baseFolder", style |-> "out", wrap |-> <<>>],
   [ep |-> "/v3/dir/content", style |-> "out", wrap |-> <<>>],
   [ep |-> "GET /v3/user/dek", style |-> "nil", wrap |-> <<>>],
   [ep |-> "/v3/user/keyPair/info", style |-> "nil", wrap |-> <<"request failed">>],
   [ep |-> "/v3/dir/create", style |-> "nil", wrap |-> <<>>],
   [ep |-> "/v3/upload/done", style |-> "nil", wrap |-> <<>>],
   [ep |-> "/v3/upload/empty", style |-> "nil", wrap |-> <<>>],
   [ep |-> "/v3/file/metadata", style |-> "none", wrap |-> <<"post v3 file metadata">>],
   [ep |-> "/v3/dir/trash", style |-> "none", wrap |-> <<>>],
   [ep |-> "/v3/file/delete/permanent", style |-> "none", wrap |-> <<>>],
   [ep |-> "/v3/dir/delete/permanent", style |-> "none", wrap |-> <<>>],
   [ep |-> "POST /v3/user/dek", style |-> "none", wrap |-> <<>>],
   [ep |-> "/v3/upload", style |-> "raw", wrap |-> <<>>]}

WrapAll(prefixes, err) == IF prefixes = <<>> THEN err ELSE Wrap(prefixes[1], err)

\* PostV3Upload (v3_file_trash.go 68-98)
PostV3UploadReturn(reply) ==
  IF ~handleRequest(reply).ok THEN [val |-> NilValue, err |-> handleRequest(reply).err]
  ELSE IF ~handleRequest(reply).res.Status
  THEN [val |-> NilValue,
        err |-> [NewErr("cannot upload file chunk") EXCEPT
                   !.Message = handleRequest(reply).res.Message]]
  ELSE IF IntoData(handleRequest(reply).res) # NilErr
  THEN [val |-> NilValue, err |-> IntoData(handleRequest(reply).res)]
  ELSE [val |-> DecodedValue, err |-> NilErr]

\* what the endpoint method e returns for the reply
EndpointReturn(e, reply) ==
  IF e.style = "raw" THEN PostV3UploadReturn(reply)
  ELSE IF e.style = "none"
  THEN [val |-> NilValue,
        err |-> IF Request(reply).ok THEN NilErr ELSE WrapAll(e.wrap, Request(reply).err)]
  ELSE IF RequestData(reply).err = NilErr
  THEN [val |-> RequestData(reply).out, err |-> NilErr]
  ELSE [val |-> IF e.style = "out" THEN RequestData(reply).out ELSE NilValue,
        err |-> WrapAll(e.wrap, RequestData(reply).err)]

InitRQ ==
  /\ InitNoTransfer
  /\ InitNoFS /\ InitNoMc /\ InitNoSz /\ InitNoFm /\ InitNoCl
  /\ InitNoDp /\ InitNoHn
  /\ InitNoRq

\* one call of an endpoint method and its caller: every caller tests
\* err != nil and goes on with the value only when it is nil
RqCall(e, reply) ==
  /\ rqCall' = [ep |-> e.ep, reply |-> reply]
  /\ rqOut' = [kind |-> "returned",
               val |-> EndpointReturn(e, reply).val,
               err |-> EndpointReturn(e, reply).err,
               success |-> EndpointReturn(e, reply).err = NilErr]
  /\ UNCHANGED rqRest

NextRQ == \E e \in Endpoints, reply \in Replies : RqCall(e, reply)

SpecRQ == InitRQ /\ [][NextRQ]_vars

\* the server replied with an envelope of status false
StatusFalse == rqCall.ep # "none" /\ rqCall.reply.kind = "json" /\ ~rqCall.reply.Status

\* C21: a reply with status=false makes the endpoint call return an error
\* that carries the reply's code and message, no decoded result, and the
\* caller does not go on as after a success.
C21_StatusFalseIsError ==
  StatusFalse =>
    /\ rqOut.err.kind = "response error"
    /\ rqOut.err.Message = rqCall.reply.Message
    /\ rqOut.err.Code = rqCall.reply.Code
    /\ rqOut.val # DecodedValue
    /\ ~rqOut.success
\* /v3/login answered status=false with data the method could decode
C21_Witness ==
  /\ StatusFalse
  /\ rqCall.ep = "/v3/login"
  /\ rqCall.reply.Data = "good" /\ rqCall.reply.Code = "c" /\ rqCall.reply.Message = "m"
  /\ rqOut.err.kind = "response error"

\* ================================================================ HashFileName
\* Filen.HashFileName of filen/crypto.go.  A digest is the term of the
\* functions applied to the input, in order: two digests are equal exactly
\* when the same functions were applied to the same bytes.  The values of the
\* digests the tests name are kept in a table.

MaxNameLen == 3

NameChars == {"a", "b", "c", "A", "B", "C"}
Names == UNION {[1..n -> NameChars] : n \in 0..MaxNameLen}

\* strings.ToLower
ToLowerChar(ch) ==
  CASE ch = "A" -> "a"
    [] ch = "B" -> "b"
    [] ch = "C" -> "c"
    [] OTHER -> ch
ToLower(name) == [k \in 1..Len(name) |-> ToLowerChar(name[k])]

\* []byte(name), and the functions applied to bytes
BytesOf(name) == [ops |-> <<>>, key |-> "", of |-> name]
Sha1Sum(x) == [x EXCEPT !.ops = Append(@, "sha1")]
Sha256Sum(x) == [x EXCEPT !.ops = Append(@, "sha256")]
Sha512Sum(x) == [x EXCEPT !.ops = Append(@, "sha512")]
HexEncodeToString(x) == [x EXCEPT !.ops = Append(@, "hex")]
HMACKeyHash(key, x) == [x EXCEPT !.ops = Append(@, "hmac-sha256-hex"), !.key = key]

\* HashFileName (filen/crypto.go 11-23); HashFileNameNoFold is the variant
\* without strings.ToLower, against which the case claim is tested
HashFileNameNoFold(api, name) ==
  IF api.AuthVersion \in {1, 2}
  THEN HexEncodeToString(Sha1Sum(HexEncodeToString(Sha512Sum(BytesOf(name)))))
  ELSE HMACKeyHash(api.HMACKey, BytesOf(name))
HashFileName(api, name) ==
  IF api.AuthVersion \in {1, 2}
  THEN HexEncodeToString(Sha1Sum(HexEncodeToString(Sha512Sum(BytesOf(ToLower(name))))))
  ELSE HMACKeyHash(api.HMACKey, BytesOf(ToLower(name)))

\* the text of the digests whose value is known: SHA-1 of the 128 hex
\* characters of SHA-512("abc") (TestHashFileName)
DigestText(x) ==
  IF x = HexEncodeToString(Sha1Sum(HexEncodeToString(Sha512Sum(BytesOf(<<"a", "b", "c">>)))))
  THEN "5c5a4ad792911a5a58741e16257f62b664aa2df3"
  ELSE IF x = HexEncodeToString(Sha1Sum(Sha256Sum(BytesOf(<<"a", "b", "c">>))))
  THEN "89066b1719b7cf4017a2f59c9109858455bc2c2a"
  ELSE "unknown"

InitHN ==
  /\ InitNoTransfer
  /\ InitNoFS /\ InitNoMc /\ InitNoSz /\ InitNoFm /\ InitNoCl
  /\ InitNoRq /\ InitNoDp
  /\ hnApi \in [AuthVersion : {1, 2, 3}, HMACKey : {"hmacKey"}]
  /\ hnName \in Names
  /\ hnOut = [done |-> FALSE]

\* api.HashFileName(name)
HnHashFileName ==
  /\ ~hnOut.done
  /\ hnOut' = [done |-> TRUE, val |-> HashFileName(hnApi, hnName)]
  /\ UNCHANGED <<hnApi, hnName>>
  /\ UNCHANGED hnRest

NextHN == HnHashFileName

SpecHN == InitHN /\ [][NextHN]_vars

\* HashFileName was called on a session of auth version 1 or 2
HashedV2 == hnOut.done /\ hnApi.AuthVersion \in {1, 2}

\* C23 as stated: for auth versions 1 and 2 HashFileName(name) is
\* hex(SHA-1(SHA-256(lowercase(name)))), the SHA-1 taken of the raw inner
\* digest, and "abc" hashes to 5c5a4ad792911a5a58741e16257f62b664aa2df3.
C23_Sha256Raw ==
  HashedV2 =>
    /\ hnOut.val = HexEncodeToString(Sha1Sum(Sha256Sum(BytesOf(ToLower(hnName)))))
    /\ ToLower(hnName) = <<"a", "b", "c">> =>
         DigestText(hnOut.val) = "5c5a4ad792911a5a58741e16257f62b664aa2df3"

\* C23: for auth versions 1 and 2 HashFileName(name) is
\* hex(SHA-1(hex(SHA-512(lowercase(name))))), the SHA-1 taken of the hex text
\* of the inner digest; it depends on nothing but lowercase(name), so names
\* that differ only in letter case hash equal, and "abc" hashes to
\* 5c5a4ad792911a5a58741e16257f62b664aa2df3.
C23_NameHash ==
  HashedV2 =>
    /\ hnOut.val =
         HexEncodeToString(Sha1Sum(HexEncodeToString(Sha512Sum(BytesOf(ToLower(hnName))))))
    /\ \A other \in Names :
         ToLower(other) = ToLower(hnName) => HashFileName(hnApi, other) = hnOut.val
    /\ ToLower(hnName) = <<"a", "b", "c">> =>
         DigestText(hnOut.val) = "5c5a4ad792911a5a58741e16257f62b664aa2df3"
\* "AbC" was hashed on a session of auth version 2
C23_Witness ==
  /\ HashedV2
  /\ hnApi.AuthVersion = 2
  /\ hnName = <<"A", "b", "C">>
  /\ DigestText(hnOut.val) = "5c5a4ad792911a5a58741e16257f62b664aa2df3"

\* ================================================================ DownloadToPath
\* Filen.DownloadToPath of filen/public.go 13-54: the download is written to
\* a temporary file in the directory of downloadPath, which is renamed to
\* downloadPath at the end.  The reader is the ChunkedReader above.

\* the file at downloadPath before the call: absent, or an older file
OldDest == [exists |-> TRUE, bytes |-> <<99>>]

InitDP ==
  /\ InitDownload
  /\ InitNoFS /\ InitNoMc /\ InitNoSz /\ InitNoFm /\ InitNoCl
  /\ InitNoRq /\ InitNoHn
  /\ dpc = "start"
  /\ dpTmp = NoTmp
  /\ dpDest0 \in {NoDest, OldDest}
  /\ dpDest = dpDest0
  /\ dpRet = "none"

\* _ = os.Remove(fName); return err
RemoveAndReturn(err) ==
  /\ dpTmp' = [dpTmp EXCEPT !.st = "removed"]
  /\ dpRet' = err
  /\ dpc' = "returned"
  /\ UNCHANGED <<dpDest, dpDest0>>

\* 14-18: os.CreateTemp(downloadDir, ...) and its error return
DpCreateTemp ==
  /\ dpc = "start"
  /\ \E ok \in BOOLEAN :
       IF ok
       THEN /\ dpTmp' = [st |-> "open", bytes |-> <<>>, closeErr |-> FALSE]
            /\ dpc' = "open"
            /\ UNCHANGED dpRet
       ELSE /\ dpRet' = "create temp file"
            /\ dpc' = "returned"
            /\ UNCHANGED dpTmp
  /\ UNCHANGED <<dpDest, dpDest0>>
  /\ UNCHANGED dpRest

\* 20: api.GetDownloadReader(ctx, file)
DpGetDownloadReader == dpc = "open" /\ newChunkedReader

\* 21: f.ReadFrom(downloader) is io.Copy: Read is called with the copy buffer
\* until it returns an error, each Read's bytes being written to the file
DpRead ==
  /\ dpc = "open"
  /\ lastRead.err.e \in {"none", "nil"}
  /\ \E n \in 1..MaxP : ReadEnter(n)

\* 21-31: ReadFrom returns, because Read returned an error or because a write
\* to the file failed; f.Close() follows, and the error return of ReadFrom
DpReadFromReturn ==
  /\ dpc = "open"
  /\ rpc = "idle"
  /\ \E writeErr \in BOOLEAN, errClose \in BOOLEAN :
       /\ writeErr => lastRead.n > 0
       /\ ~writeErr => lastRead.err.e \notin {"none", "nil"}
       /\ IF writeErr \/ lastRead.err.e # "EOF"
          THEN /\ dpTmp' = [st |-> "removed", bytes |-> delivered, closeErr |-> errClose]
               /\ dpRet' = "download file"
               /\ dpc' = "returned"
          ELSE /\ dpTmp' = [st |-> "closed", bytes |-> delivered, closeErr |-> errClose]
               /\ dpc' = "close"
               /\ UNCHANGED dpRet
  /\ UNCHANGED <<dpDest, dpDest0>>
  /\ UNCHANGED dpRest

\* 32: downloader.Close()
DpCloseDownloader == dpc = "close" /\ Close

\* 33-53: the error returns for downloader.Close and f.Close, os.Rename and
\* its error return (DpRename); DpRenameUnchecked is the variant that looks at
\* neither Close, against which the claim on downloadPath is tested
DpRenameUnchecked ==
  /\ dpc = "close"
  /\ closeRet # "none"
  /\ \E renamed \in BOOLEAN :
       IF renamed
       THEN /\ dpDest' = [exists |-> TRUE, bytes |-> dpTmp.bytes]
            /\ dpTmp' = [dpTmp EXCEPT !.st = "renamed"]
            /\ dpRet' = "nil"
            /\ dpc' = "returned"
            /\ UNCHANGED dpDest0
       ELSE RemoveAndReturn("rename file")
  /\ UNCHANGED dpRest
DpRename ==
  /\ dpc = "close"
  /\ closeRet # "none"
  /\ IF closeRet # "nil" THEN RemoveAndReturn("close downloader")
     ELSE IF dpTmp.closeErr THEN RemoveAndReturn("close file")
     ELSE \E renamed \in BOOLEAN :
            IF renamed
            THEN /\ dpDest' = [exists |-> TRUE, bytes |-> dpTmp.bytes]
                 /\ dpTmp' = [dpTmp EXCEPT !.st = "renamed"]
                 /\ dpRet' = "nil"
                 /\ dpc' = "returned"
                 /\ UNCHANGED dpDest0
            ELSE RemoveAndReturn("rename file")
  /\ UNCHANGED dpRest

NextDP ==
  \/ DpCreateTemp
  \/ DpGetDownloadReader
  \/ \E s \in DOMAIN buffer : FetchSucceed(s)
  \/ \E s \in DOMAIN buffer : FetchFail(s)
  \/ \E s \in DOMAIN buffer : FetchUnlock(s)
  \/ DpRead
  \/ ReadTop
  \/ ReadLockCtxDone
  \/ ReadLockCopy
  \/ ReaderCallerCancel
  \/ DpReadFromReturn
  \/ DpCloseDownloader
  \/ DpRename

SpecDP == InitDP /\ [][NextDP]_vars

Running == {t \in DOMAIN tasks : tasks[t].st \in {"inflight", "release"}}

\* C31: during UploadFile the chunk-upload tasks that were started and have
\* not finished their upload are at most MaxUploaders, each holding one slot
\* of the semaphore: a task is started only into a free slot, and a task
\* that finishes gives back exactly the one slot it held.
C31_AtMostMaxUploaders ==
  /\ uploadSem <= MaxUploaders
  /\ Cardinality(Running) = uploadSem
\* more tasks than slots were started: the latest runs in a slot that an
\* earlier task gave back, and every slot is taken again
C31_Witness ==
  /\ Cardinality(DOMAIN tasks) > MaxUploaders
  /\ uploadSem = MaxUploaders
  /\ \E t \in DOMAIN tasks : tasks[t].st = "gone"

\* ================================================================ paths of FindItem

\* C32: the result of FindItem depends only on the non-empty segments of the
\* path: every path with the same non-empty segments (leading, trailing or
\* repeated "/") resolves to the same item, the empty path resolves to the
\* root directory, and the error "unreachable" is never returned.
C32_SegmentsOnly ==
  fsLast.op = "FindItem" =>
    /\ fsLast.ret.kind # "unreachable"
    /\ fsPath = <<>> => fsLast.ret = RootItem(sess)
    /\ \A other \in Paths :
         NonEmptySegments(other) = NonEmptySegments(fsPath) =>
           FindItem(sess, fsDirs, fsFiles, other, fsLast.net) = fsLast.ret

\* ================================================================ requests of FindDirectoryOrCreate

\* C33: within one call of FindDirectoryOrCreate no directory listing is
\* requested after the first directory was created: in the order of the
\* call's requests no dir/content follows a dir/create.
C33_NoListingAfterCreate ==
  fsLast.op = "FindDirectoryOrCreate" =>
    \A a, b \in 1..Len(fsLast.log) :
      (a < b /\ fsLast.log[a] = "create") => fsLast.log[b] # "list"

\* ================================================================ DecryptMeta on wire strings
\* Filen.DecryptMeta (filen/crypto.go 38-50) on the string as it arrives: a
\* sequence of characters that need not be an envelope.  A Go slice
\* expression s[lo:hi] panics when hi exceeds len(s).

\* longest string handed to DecryptMeta
MaxEnvLen == 9

PrefixV1 == <<"U", "2", "F", "s", "d", "G", "V", "k">>
PrefixV2 == <<"0", "0", "2">>
PrefixV3 == <<"0", "0", "3">>
Padding == [k \in 1..MaxEnvLen |-> "x"]
\* the strings: a known prefix, an unknown one or none, cut at any length
WireStrings ==
  {SubSeq(pre \o Padding, 1, n) :
     pre \in {PrefixV1, PrefixV2, PrefixV3, <<"0", "0", "4">>, <<>>}, n \in 0..MaxEnvLen}

\* s[lo:hi] does not panic / its value
SliceOK(s, lo, hi) == lo <= hi /\ hi <= Len(s)
Slice(s, lo, hi) == SubSeq(s, lo + 1, hi)

Panic(msg) == [op |-> "DecryptMeta", kind |-> "panic", msg |-> msg]
ErrorValue(msg) == [op |-> "DecryptMeta", kind |-> "err", msg |-> msg]

\* MasterKey.DecryptMetaV1 (487-513) up to its first failure: base64 text has
\* a length that is a multiple of 4; decoded[8:16] needs 16 decoded bytes
WireDecryptMetaV1(s) ==
  IF Len(s) % 4 # 0 THEN ErrorValue("failed to decode base64")
  ELSE IF (Len(s) \div 4) * 3 < 16 THEN Panic("slice bounds out of range")
  ELSE ErrorValue("invalid padding size")
\* MasterKey.DecryptMetaV2 (515-526): metadata[3:15], then base64 and Open
WireDecryptMetaV2(s) ==
  IF ~SliceOK(s, 3, 15) THEN Panic("slice bounds out of range")
  ELSE ErrorValue("DecryptMetadataV2")
\* MasterKeys.decryptMeta (549-560): an empty chain calls no key
WireChain(ms, out) ==
  IF ms = <<>> \/ out.kind = "err" THEN ErrorValue("all keys failed") ELSE out
\* EncryptionKey.DecryptMeta (612-625): metadata[0:3], metadata[3:27]
WireKeyDecryptMeta(s) ==
  IF ~SliceOK(s, 0, 3) THEN Panic("slice bounds out of range")
  ELSE IF Slice(s, 0, 3) # PrefixV3 THEN ErrorValue("unknown metadata format")
  ELSE IF ~SliceOK(s, 3, 27) THEN Panic("slice bounds out of range")
  ELSE ErrorValue("decrypting")

\* Filen.DecryptMeta (filen/crypto.go 38-50)
WireDecryptMeta(api, encrypted) ==
  IF ~SliceOK(encrypted, 0, 8) THEN Panic("slice bounds out of range")
  ELSE IF Slice(encrypted, 0, 8) = PrefixV1
  THEN WireChain(api.MasterKeys, WireDecryptMetaV1(encrypted))
  ELSE IF Slice(encrypted, 0, 3) = PrefixV2
  THEN WireChain(api.MasterKeys, WireDecryptMetaV2(encrypted))
  ELSE IF Slice(encrypted, 0, 3) = PrefixV3
  THEN WireKeyDecryptMeta(encrypted)
  ELSE Panic("unsupported version")

InitDM ==
  /\ InitNoTransfer
  /\ InitNoFS /\ InitNoSz /\ InitNoFm /\ InitNoCl
  /\ InitNoAux
  /\ mcApi \in {V2Session(<<"mk1">>), V3Session("dek")}
  /\ mcMsg = <<>>
  /\ mcEnv \in WireStrings
  /\ mcOut = NoOut

\* api.DecryptMeta(mcEnv)
DmDecryptMeta ==
  /\ mcOut.op = "none"
  /\ mcOut' = WireDecryptMeta(mcApi, mcEnv)
  /\ UNCHANGED <<mcApi, mcMsg, mcEnv>>
  /\ UNCHANGED mcRest

NextDM == DmDecryptMeta

SpecDM == InitDM /\ [][NextDM]_vars

\* the string starts with pre
HasPrefix(s, pre) == Len(s) >= Len(pre) /\ SubSeq(s, 1, Len(pre)) = pre
\* not an envelope of a known version: no known prefix, or shorter than the
\* eight characters inspected first
NotAnEnvelope(s) ==
  \/ Len(s) < Len(PrefixV1)
  \/ ~(HasPrefix(s, PrefixV1) \/ HasPrefix(s, PrefixV2) \/ HasPrefix(s, PrefixV3))

\* C34: DecryptMeta of a session returns an error value, and does not abort
\* the program, for every string that is not an envelope of a known
\* version: one with a prefix other than U2FsdGVk / 002 / 003, or one
\* shorter than the prefix inspected.
C34_MalformedIsError ==
  (mcOut.op = "DecryptMeta" /\ NotAnEnvelope(mcEnv)) => mcOut.kind = "err"

\* ================================================================ the keys a session uses

\* C35: a session of auth version 2 never uses its DEK or KEK: what its
\* EncryptMeta produces is sealed under a master key of its chain, and
\* DecryptMeta of any envelope it is given goes through the master-key chain.
C35_V2NeverUsesDEK ==
  mcApi.AuthVersion = 2 =>
    /\ mcEnv.from = "self" =>
         (mcEnv.ver = "002" /\ mcEnv.body.key = mcApi.MasterKeys[1])
    /\ mcOut.op = "DecryptMeta" => mcOut.used = "MasterKeys"

\* ================================================================ the life of a session
\* A session is built by New or NewWithAPIKey, may be written with
\* SerializeTo and read back with DeserializeFrom, and encrypts metadata.

\* the sessions at hand: those built, and the one read back
SessionsAtHand ==
  Sessions \cup (IF szOut.op = "DeserializeFrom" /\ szOut.ok THEN {szOut.api} ELSE {})

\* api.SerializeTo(buffer) of a session that was built
KsSerializeTo ==
  /\ \E api \in Sessions :
       /\ szApi' = api
       /\ szBuf' = SerializeTo(api)
  /\ szOut' = NoSession
  /\ UNCHANGED szRest

\* the buffer holds what SerializeTo wrote in an earlier run, of a session as
\* newV2Authed or newV3Authed fill it
SavedSessions ==
  {FilenV2("apiKey", c, "rsa1", Zero32) : c \in {<<"mk1">>, <<"mk1", "mk0">>}}
  \cup {FilenV3("apiKey", "dek", "kek", "rsa1", Zero32)}
KsSavedSession ==
  /\ szBuf.kind = "none"
  /\ \E api \in SavedSessions :
       /\ szApi' = api
       /\ szBuf' = SerializeTo(api)
  /\ szOut' = NoSession
  /\ UNCHANGED szRest

\* DeserializeFrom(buffer)
KsDeserializeFrom ==
  /\ szBuf.kind # "none"
  /\ szOut' = DeserializeFrom(szBuf)
  /\ UNCHANGED <<szApi, szBuf>>
  /\ UNCHANGED szRest

\* api.EncryptMeta(metadata) on a session at hand: an empty chain makes
\* MasterKeys.EncryptMeta (570-576) panic at (*ms)[0]
KsEncryptMeta ==
  /\ \E api \in SessionsAtHand, msg \in Msgs :
       /\ mcApi' = api
       /\ mcMsg' = msg
       /\ mcOut' = [NoOut EXCEPT !.op = "EncryptMeta", !.used = EncryptMetaReceiver(api),
                      !.ok = (EncryptMetaReceiver(api) = "DEK"
                              \/ (EncryptMetaReceiver(api) = "MasterKeys"
                                  /\ api.MasterKeys # <<>>))]
       /\ mcEnv' = IF EncryptMetaReceiver(api) = "DEK"
                   THEN EnvFrom("self", EncryptionKey_EncryptMeta(api.DEK, MetaNonce, msg))
                   ELSE IF EncryptMetaReceiver(api) = "MasterKeys" /\ api.MasterKeys # <<>>
                   THEN EnvFrom("self", MasterKeys_EncryptMeta(api.MasterKeys, MetaNonce, msg))
                   ELSE NoEnv
  /\ UNCHANGED mcRest

NextKS ==
  \/ \E fail \in 0..MaxRequests : ClNew(fail)
  \/ \E apiKey \in {"apiKey", "stale"}, fail \in 0..MaxRequests : ClNewWithAPIKey(apiKey, fail)
  \/ KsSerializeTo
  \/ KsSavedSession
  \/ KsDeserializeFrom
  \/ KsEncryptMeta

SpecKS == InitCL /\ [][NextKS]_vars

PasswordKey == NewMasterKey(DeriveMKAndAuthFromPassword(clPw).key)
\* the keys of the chain after the first are the keys the server lists other
\* than the password's, as often and in the order the server lists them
KeepsServerOrder(chain, stored) ==
  LET rest == Tail(chain)
      listed == {j \in 1..Len(stored) : NewMasterKey(stored[j]) # PasswordKey}
  IN /\ Len(rest) = Cardinality(listed)
     /\ \E f \in [1..Len(rest) -> listed] :
          /\ \A a, b \in 1..Len(rest) : a < b => f[a] < f[b]
          /\ \A a \in 1..Len(rest) : rest[a] = NewMasterKey(stored[f[a]])

StepsOfNew(srv) ==
  <<"/v3/auth/info", "/v3/login",
    IF srv.AuthVersion = 2 THEN "/v3/user/masterKeys" ELSE "/v3/user/dek",
    "/v3/user/keyPair/info", "/v3/user/baseFolder">>

\* C38: New sends auth/info, login, the key fetch (masterKeys for auth version
\* 2, dek for auth version 3), keyPair/info and baseFolder in this order; the
\* requests after login carry the API key of the login and none is sent
\* unless the login succeeded; when a step fails (a request the transport
\* fails, a rejected login, a private key that cannot be decrypted or is not
\* the half of the public key) New returns an error and no session, and sends
\* nothing further.
C38_OrderOfSteps ==
  clNew.run =>
    /\ Len(clNew.log) <= 5
    /\ \A k \in 1..Len(clNew.log) :
         /\ clNew.log[k].ep = StepsOfNew(clSrv)[k]
         /\ k <= 2 => clNew.log[k].auth = <<>>
         /\ k > 2 => clNew.log[k].auth = <<"Bearer", clSrv.APIKey>>
    /\ Len(clNew.log) > 2 => (clPw = "pw" /\ clNew.fail \notin {1, 2})
    /\ clNew.fail \in 1..5 => (~clNew.ok /\ Len(clNew.log) <= clNew.fail)
    /\ ~RSAKeyPairOK("rsa1", clSrv.PublicKey) => (~clNew.ok /\ Len(clNew.log) <= 4)
    /\ clNew.ok => Len(clNew.log) = 5
    /\ ~clNew.ok => "api" \notin DOMAIN clNew
C38_StepsInOrder ==
  /\ C38_OrderOfSteps
  /\ (clNew.run /\ ~clNew.ok) => clNew.err # "panic"

\* ================================================================ the URL of an error
\* The URL object of a call and the text of the errors the transport returns
\* (client.go, part_001).  A text is the sequence of its parts and a part is
\* a tuple of strings: a URL is <<host, path>>, a path alone <<path>>, any
\* other piece <<piece>>.

gatewayURLs == <<"https://gateway.filen.io">>
egestURLs == <<"https://egest.filen.io">>
ingestURLs == <<"https://ingest.filen.io">>
URLTypes == {"ingest", "egest", "gateway"}
PoolOf(type) ==
  CASE type = "ingest" -> ingestURLs
    [] type = "egest" -> egestURLs
    [] OTHER -> gatewayURLs

\* GatewayURL (50-56) and the literal of DownloadFileChunk: nothing cached
NewFilenURL(type, path) == [Type |-> type, Path |-> path, CachedUrl |-> <<>>]

\* FilenURL.String (61-77): the URL object after the call; n is the draw of
\* rand.Intn over the pool
FilenURL_String(url, n) ==
  IF url.CachedUrl = <<>>
  THEN [url EXCEPT !.CachedUrl = <<PoolOf(url.Type)[n], url.Path>>]
  ELSE url

\* an error value: its text, <<>> being nil
Text(pieces) == [k \in 1..Len(pieces) |-> <<pieces[k]>>]
\* RequestError.Error (48-62)
RequestError_Error(Message, Method, URL, UnderlyingError) ==
  Text(<<Method, " ">>)
  \o (IF URL.CachedUrl # <<>> THEN Text(<<"cached: ">>) \o <<URL.CachedUrl>>
      ELSE <<<<URL.Path>>>>)
  \o Text(<<": ", Message>>)
  \o (IF UnderlyingError # <<>> THEN Text(<<" (">>) \o UnderlyingError \o Text(<<")">>)
      ELSE <<>>)
\* cannotSendError (64-72)
cannotSendError(method, url, err) ==
  RequestError_Error("Cannot send request", method, url, err)
\* aPIResponse.CheckError (225-230) on a reply of status false
CheckErrorText(message, code) == Text(<<"response error: ", message, " ", code>>)

\* what may go wrong with a call, in the order of the steps: building the
\* request, sending it, reading the body, decoding the envelope, the status
\* of the envelope, decoding its data; "none": nothing
Fates == {"build", "send", "read", "unmarshal", "status", "data", "none"}
\* the error of the standard library at the step
CauseOf(fate) == Text(<<fate>>)

\* what a call returns: the error text, the URL object after the call and
\* the URL the request went to (<<>>: no request was sent)
UeReturn(err, url, sentTo) ==
  [kind |-> "returned", err |-> err, url |-> url, sentTo |-> sentTo]

\* Request and RequestData (175-213) with buildJSONRequest (91-105),
\* buildReaderRequest (74-80), handleRequest (138-158), parseResponse
\* (116-131) and convertIntoResponseData (162-173)
TransportRequestData(method, url0, n, fate) ==
  LET url == FilenURL_String(url0, n)
  IN IF fate = "build"
     THEN UeReturn(RequestError_Error("Cannot build requestData", method, url, CauseOf(fate)),
                   url, <<>>)
     ELSE IF fate = "send"
     THEN UeReturn(cannotSendError(method, url, CauseOf(fate)), url, url.CachedUrl)
     ELSE IF fate = "read"
     THEN UeReturn(RequestError_Error("Cannot read response body", method, url, CauseOf(fate)),
                   url, url.CachedUrl)
     ELSE IF fate = "unmarshal"
     THEN UeReturn(RequestError_Error("Cannot unmarshal response", method, url, <<>>),
                   url, url.CachedUrl)
     ELSE IF fate = "status"
     THEN UeReturn(CheckErrorText("m", "c"), url, url.CachedUrl)
     ELSE IF fate = "data"
     THEN UeReturn(RequestError_Error("Cannot unmarshal response data", method, url,
                                      CauseOf(fate)),
                   url, url.CachedUrl)
     ELSE UeReturn(<<>>, url, url.CachedUrl)

\* DownloadFileChunk (254-277): the body is raw bytes, so only building,
\* sending and reading can fail
ChunkFates == {"build", "send", "read", "none"}
DownloadFileChunk(path, n, fate) ==
  LET url == FilenURL_String(NewFilenURL("egest", path), n)
  IN IF fate = "build"
     THEN UeReturn(RequestError_Error("Cannot build requestData", "GET", url, CauseOf(fate)),
                   url, <<>>)
     ELSE IF fate = "send"
     THEN UeReturn(cannotSendError("GET", url, CauseOf(fate)), url, url.CachedUrl)
     ELSE IF fate = "read"
     THEN UeReturn(CauseOf(fate), url, url.CachedUrl)
     ELSE UeReturn(<<>>, url, url.CachedUrl)

UePaths == {"/v3/login", "/v3/dir/content", "/v3/upload"}
ChunkPaths == {"/r/b/u/0", "/r/b/u/1"}

UeRequestData(method, type, path, n, fate) ==
  /\ rqCall' = [ep |-> path, call |-> "RequestData", method |-> method, fate |-> fate]
  /\ rqOut' = TransportRequestData(method, NewFilenURL(type, path), n, fate)
  /\ UNCHANGED rqRest

UeDownloadFileChunk(path, n, fate) ==
  /\ rqCall' = [ep |-> path, call |-> "DownloadFileChunk", method |-> "GET", fate |-> fate]
  /\ rqOut' = DownloadFileChunk(path, n, fate)
  /\ UNCHANGED rqRest

NextUE ==
  \/ \E method \in {"GET", "POST"}, type \in URLTypes, path \in UePaths, fate \in Fates :
       \E n \in 1..Len(PoolOf(type)) : UeRequestData(method, type, path, n, fate)
  \/ \E path \in ChunkPaths, fate \in ChunkFates :
       \E n \in 1..Len(egestURLs) : UeDownloadFileChunk(path, n, fate)

SpecUE == InitRQ /\ [][NextUE]_vars

\* the text holds the part
Contains(text, part) == \E k \in 1..Len(text) : text[k] = part

\* C39: every error a transport call returns (the request could not be
\* built or sent, the reply could not be read or decoded, the reply has
\* status false, a chunk download failed) holds in its text the URL that was
\* chosen and cached for the call, and a request that was sent went to that
\* URL.
C39_ErrorNamesURL ==
  (rqOut.kind = "returned" /\ rqOut.err # <<>>) =>
    /\ rqOut.url.CachedUrl # <<>>
    /\ Contains(rqOut.err, rqOut.url.CachedUrl)
    /\ rqOut.sentTo # <<>> => rqOut.sentTo = rqOut.url.CachedUrl
\* the same without the two errors that are no RequestError: the status
\* false of a reply and the read of a chunk's body
C39_RequestErrorNamesURL ==
  (/\ rqOut.kind = "returned" /\ rqOut.err # <<>>
   /\ rqCall.fate # "status"
   /\ ~(rqCall.call = "DownloadFileChunk" /\ rqCall.fate = "read")) =>
    /\ rqOut.url.CachedUrl # <<>>
    /\ Contains(rqOut.err, rqOut.url.CachedUrl)
    /\ rqOut.sentTo # <<>> => rqOut.sentTo = rqOut.url.CachedUrl

====
